---- MODULE Spec2Model ----
(***************************************************************************)
(* Model of the open-item reconciliation engine of                        *)
(* src/backend/reconciliation.py: the Reference Extractor, the Fuzzy Text  *)
(* Matcher, the per-counterparty Reconciler (add_invoice, process_payment, *)
(* flush_remaining) and the driver reconcile_fifo with its post-processing *)
(* pass and its pre-reconciled rows.                                       *)
(*                                                                         *)
(* Amounts are exact decimals counted in thousandths of the currency unit  *)
(* (1 = 0.001), so that the tolerance 0.01 is 10 and amounts one           *)
(* thousandth above or below it can be written; the rounding error of the  *)
(* program's binary floating point is not modelled.  Dates are day         *)
(* numbers.                                                                *)
(* Confidences are counted in tenths of a percent (900 = 90.0).  A text is *)
(* a sequence of one-character strings; the empty sequence stands for a    *)
(* missing (None) or empty text.                                           *)
(***************************************************************************)
EXTENDS Integers, Sequences, FiniteSets, TLC

(***************************************************************************)
(* Bounds of the model.                                                    *)
(***************************************************************************)
MaxMov == 3

(***************************************************************************)
(* Program constants.                                                      *)
(***************************************************************************)
\* Reconciler.__init__ / reconcile_fifo default tol = 0.01
Tol == 10
\* one cent, the unit of the "+.2f" amount of the document key
Cent == 10

(***************************************************************************)
(* Generic helpers.                                                        *)
(***************************************************************************)
Abs(x) == IF x < 0 THEN -x ELSE x

Min(a, b) == IF a <= b THEN a ELSE b

Max(a, b) == IF a >= b THEN a ELSE b

RECURSIVE SumSeq(_)
SumSeq(s) == IF s = <<>> THEN 0 ELSE Head(s) + SumSeq(Tail(s))

\* the subsequence of s whose elements satisfy Test, in order
SelectIdx(s, Test(_)) ==
    LET RECURSIVE Go(_)
        Go(i) == IF i > Len(s) THEN <<>>
                 ELSE IF Test(i) THEN <<i>> \o Go(i + 1) ELSE Go(i + 1)
    IN Go(1)

\* stable insertion sort of a sequence by an integer key, ascending:
\* what Python's list.sort / sorted do for the keys used in the program
SortBy(s, Key(_)) ==
    LET \* insert x after every element whose key is <= its own
        RECURSIVE Ins(_, _)
        Ins(x, t) == IF t = <<>> THEN <<x>>
                     ELSE IF Key(x) < Key(Head(t)) THEN <<x>> \o t
                     ELSE <<Head(t)>> \o Ins(x, Tail(t))
        RECURSIVE Go(_)
        Go(i) == IF i = 0 THEN <<>> ELSE Ins(s[i], Go(i - 1))
    IN Go(Len(s))

\* round a non-negative rational n/d to the nearest integer, ties to even
\* (Python's round() on a value that is exact in binary)
RoundHalfEven(n, d) ==
    LET q == n \div d
        r == n % d
    IN IF 2 * r < d THEN q
       ELSE IF 2 * r > d THEN q + 1
       ELSE IF q % 2 = 0 THEN q ELSE q + 1

(***************************************************************************)
(* Texts.                                                                  *)
(***************************************************************************)
LowerLetters == <<"a", "b", "c", "f", "g", "n", "o", "p">>

UpperLetters == <<"A", "B", "C", "F", "G", "N", "O", "P">>

Digits == {"0", "1", "2", "3", "4", "5", "6", "7", "8", "9"}

\* str.upper() on one character
UpperChar(c) ==
    IF \E i \in 1..Len(LowerLetters) : LowerLetters[i] = c
    THEN UpperLetters[CHOOSE i \in 1..Len(LowerLetters) : LowerLetters[i] = c]
    ELSE c

\* str.lower() on one character
LowerChar(c) ==
    IF \E i \in 1..Len(UpperLetters) : UpperLetters[i] = c
    THEN LowerLetters[CHOOSE i \in 1..Len(UpperLetters) : UpperLetters[i] = c]
    ELSE c

Upper(t) == [i \in 1..Len(t) |-> UpperChar(t[i])]

Lower(t) == [i \in 1..Len(t) |-> LowerChar(t[i])]

\* str.strip(): drop leading and trailing blanks
RECURSIVE StripLeft(_)
StripLeft(t) == IF t # <<>> /\ Head(t) = " " THEN StripLeft(Tail(t)) ELSE t

RECURSIVE StripRight(_)
StripRight(t) ==
    IF t # <<>> /\ t[Len(t)] = " " THEN StripRight(SubSeq(t, 1, Len(t) - 1))
    ELSE t

Strip(t) == StripRight(StripLeft(t))

\* a in b (Python substring test)
IsSubstring(a, b) ==
    \E i \in 0..(Len(b) - Len(a)) : SubSeq(b, i + 1, i + Len(a)) = a

IsNumeric(w) == w # <<>> /\ \A i \in 1..Len(w) : w[i] \in Digits

EndsWith(w, suffix) ==
    Len(w) >= Len(suffix) /\ SubSeq(w, Len(w) - Len(suffix) + 1, Len(w)) = suffix

\* re.split(r'[\s,;/\-]+', text): the words of a text (empty pieces are
\* dropped by the callers' length filter, so they are not produced here)
RECURSIVE SplitWords(_)
SplitWords(t) ==
    LET s == StripLeft(t) IN
    IF s = <<>> THEN <<>>
    ELSE LET n == IF \E i \in 1..Len(s) : s[i] = " "
                  THEN (CHOOSE i \in 1..Len(s) :
                          s[i] = " " /\ \A j \in 1..(i - 1) : s[j] # " ") - 1
                  ELSE Len(s)
         IN <<SubSeq(s, 1, n)>> \o SplitWords(SubSeq(s, n + 1, Len(s)))

\* remove duplicates, keeping the first occurrence
RECURSIVE Dedup(_)
Dedup(s) ==
    IF s = <<>> THEN <<>>
    ELSE LET init == Dedup(SubSeq(s, 1, Len(s) - 1))
             x == s[Len(s)]
         IN IF \E i \in 1..Len(init) : init[i] = x THEN init ELSE Append(init, x)

(***************************************************************************)
(* Reference Extractor (extract_invoice_references).                       *)
(*                                                                         *)
(* The texts of the model are words of letters or of digits separated by   *)
(* single blanks, without punctuation and without the one-letter word "A"  *)
(* between two numbers.  On such texts the range patterns, the comma-list  *)
(* pattern and the patterns that need "/", "-" or "#" find nothing, and    *)
(* the remaining steps are the ones below, in the order of the code.       *)
(***************************************************************************)
\* re.findall of  <suffix>[-/\s]?(\d+)  : the numbers that follow a word
\* ending in the given letters
PrefixedNumbers(words, suffix) ==
    LET RECURSIVE Go(_)
        Go(i) == IF i >= Len(words) THEN <<>>
                 ELSE IF EndsWith(words[i], suffix) /\ IsNumeric(words[i + 1])
                      THEN <<words[i + 1]>> \o Go(i + 1)
                      ELSE Go(i + 1)
    IN Go(1)

\* re.findall of (\d{5,})
LongNumbers(words) ==
    LET RECURSIVE Go(_)
        Go(i) == IF i > Len(words) THEN <<>>
                 ELSE IF IsNumeric(words[i]) /\ Len(words[i]) >= 5
                      THEN <<words[i]>> \o Go(i + 1)
                      ELSE Go(i + 1)
    IN Go(1)

\* the catch-all: the words of length >= 2
TextParts(words) ==
    LET RECURSIVE Go(_)
        Go(i) == IF i > Len(words) THEN <<>>
                 ELSE IF Len(words[i]) >= 2 THEN <<words[i]>> \o Go(i + 1)
                 ELSE Go(i + 1)
    IN Go(1)

extract_invoice_references(text) ==
    IF text = <<>> THEN <<>>
    ELSE LET words == SplitWords(Upper(text))
         IN Dedup(   PrefixedNumbers(words, <<"I", "N", "V">>)
                  \o PrefixedNumbers(words, <<"F">>)
                  \o PrefixedNumbers(words, <<"F", "A", "C">>)
                  \o PrefixedNumbers(words, <<"F", "R", "A">>)
                  \o PrefixedNumbers(words, <<"F", "A", "C", "T", "U", "R", "A">>)
                  \o LongNumbers(words)
                  \o TextParts(words))

(***************************************************************************)
(* The range step of extract_invoice_references (lines 113-151) and the    *)
(* whole function on a text "<start>-<end>": digits, a hyphen, digits.  On *)
(* such a text each of the two range patterns finds one match, the pair    *)
(* (start, end) as written, the second pattern with an empty third group;  *)
(* the comma-list pattern and the patterns that need a letter, "/" or "#"  *)
(* find nothing.                                                           *)
(***************************************************************************)
DigitSeq == <<"0", "1", "2", "3", "4", "5", "6", "7", "8", "9">>

DigitValue(c) == (CHOOSE i \in 1..Len(DigitSeq) : DigitSeq[i] = c) - 1

\* int(w) for a word of digits: leading zeros are lost
RECURSIVE ParseInt(_)
ParseInt(w) ==
    IF w = <<>> THEN 0
    ELSE 10 * ParseInt(SubSeq(w, 1, Len(w) - 1)) + DigitValue(w[Len(w)])

\* str(n) for n >= 0
RECURSIVE IntToText(_)
IntToText(n) ==
    IF n < 10 THEN <<DigitSeq[n + 1]>>
    ELSE Append(IntToText(n \div 10), DigitSeq[(n % 10) + 1])

\* If end is shorter, it might be abbreviated (1234-36 means 1234-1236)
CompletedEnd(start, end) ==
    IF Len(IntToText(end)) < Len(IntToText(start))
    THEN ParseInt(SubSeq(IntToText(start), 1,
                         Len(IntToText(start)) - Len(IntToText(end)))
                  \o IntToText(end))
    ELSE end

\* Generate all numbers in range (limit to 10 to avoid excessive expansion)
ExpandRange(start, end) ==
    IF 0 < end - start /\ end - start <= 10
    THEN [k \in 1..(end - start + 1) |-> IntToText(start + k - 1)]
    ELSE <<IntToText(start), IntToText(end)>>

\* lines 123-143: the references one match (start_num, end_num) adds
RangeReferences(start_num, end_num) ==
    ExpandRange(ParseInt(start_num), CompletedEnd(ParseInt(start_num), ParseInt(end_num)))

\* re.findall of (\d+)[-/]\d{4} on "<start>-<end>"
YearSuffixed(start_num, end_num) ==
    IF Len(end_num) >= 4 THEN <<start_num>> ELSE <<>>

\* extract_invoice_references("<start_num>-<end_num>")
extract_range_references(start_num, end_num) ==
    Dedup(   RangeReferences(start_num, end_num)
          \o RangeReferences(start_num, end_num)
          \o YearSuffixed(start_num, end_num)
          \o LongNumbers(<<start_num, end_num>>)
          \o TextParts(<<start_num, end_num>>))

(***************************************************************************)
(* Fuzzy Text Matcher (fuzzy_match_score).  A score is a rational          *)
(* <<numerator, denominator>>.                                             *)
(***************************************************************************)
ScoreGeq(a, b) == a[1] * b[2] >= b[1] * a[2]

ScoreGt(a, b) == a[1] * b[2] > b[1] * a[2]

ScoreMax(a, b) == IF ScoreGeq(a, b) THEN a ELSE b

\* max_score = score only when score > max_score
ScoreMaxFirst(max_score, score) == IF ScoreGt(score, max_score) THEN score ELSE max_score

\* difflib.SequenceMatcher: the number of matched characters, found by
\* taking the longest common block (the earliest in a, then the earliest
\* in b) and recursing on the pieces to its left and to its right
RECURSIVE MatchedChars(_, _)
MatchedChars(a, b) ==
    LET blocks == {blk \in (1..Len(a)) \X (1..Len(b)) \X (1..Min(Len(a), Len(b))) :
                     /\ blk[1] + blk[3] - 1 <= Len(a)
                     /\ blk[2] + blk[3] - 1 <= Len(b)
                     /\ SubSeq(a, blk[1], blk[1] + blk[3] - 1)
                          = SubSeq(b, blk[2], blk[2] + blk[3] - 1)}
    IN IF blocks = {} THEN 0
       ELSE LET best == CHOOSE x \in blocks : \A y \in blocks :
                            \/ x[3] > y[3]
                            \/ x[3] = y[3] /\ x[1] < y[1]
                            \/ x[3] = y[3] /\ x[1] = y[1] /\ x[2] <= y[2]
            IN best[3]
               + MatchedChars(SubSeq(a, 1, best[1] - 1), SubSeq(b, 1, best[2] - 1))
               + MatchedChars(SubSeq(a, best[1] + best[3], Len(a)),
                              SubSeq(b, best[2] + best[3], Len(b)))

\* SequenceMatcher(None, a, b).ratio() = 2*M / (len(a) + len(b))
SequenceRatio(a, b) ==
    IF Len(a) + Len(b) = 0 THEN <<1, 1>>
    ELSE <<2 * MatchedChars(a, b), Len(a) + Len(b)>>

\* str.replace(prefix, ''): delete every occurrence, left to right
RECURSIVE RemoveAll(_, _)
RemoveAll(t, prefix) ==
    IF Len(t) < Len(prefix) THEN t
    ELSE IF SubSeq(t, 1, Len(prefix)) = prefix
         THEN RemoveAll(SubSeq(t, Len(prefix) + 1, Len(t)), prefix)
         ELSE <<Head(t)>> \o RemoveAll(Tail(t), prefix)

\* str.strip('-/ ')
RECURSIVE StripPunct(_)
StripPunct(t) ==
    IF t # <<>> /\ Head(t) \in {"-", "/", " "} THEN StripPunct(Tail(t))
    ELSE IF t # <<>> /\ t[Len(t)] \in {"-", "/", " "}
         THEN StripPunct(SubSeq(t, 1, Len(t) - 1))
         ELSE t

CommonPrefixes == << <<"I", "N", "V">>, <<"F">>, <<"F", "A", "C">>, <<"#">> >>

fuzzy_match_score(str1, str2, threshold) ==
    IF str1 = <<>> \/ str2 = <<>> THEN <<0, 1>>
    ELSE LET s1 == Strip(Upper(str1))
             s2 == Strip(Upper(str2))
             RECURSIVE Clean(_, _)
             Clean(k, ratio) ==
                 IF k > Len(CommonPrefixes) THEN ratio
                 ELSE LET s1_clean == StripPunct(RemoveAll(s1, CommonPrefixes[k]))
                          s2_clean == StripPunct(RemoveAll(s2, CommonPrefixes[k]))
                      IN IF s1_clean # <<>> /\ s2_clean # <<>>
                         THEN Clean(k + 1, ScoreMax(ratio, SequenceRatio(s1_clean, s2_clean)))
                         ELSE Clean(k + 1, ratio)
         IN IF s1 = s2 THEN <<1, 1>>
            ELSE IF IsSubstring(s1, s2) \/ IsSubstring(s2, s1) THEN <<9, 10>>
            ELSE LET ratio == Clean(1, SequenceRatio(s1, s2))
                 IN IF ScoreGeq(ratio, threshold) THEN ratio ELSE <<0, 1>>

\* the reference score of process_payment, lines 363-374: 0.95 when the
\* invoice's lower-cased document text (3 characters or more) is part of
\* the payment concept, raised to the best fuzzy score over all pairs of
\* (invoice reference, payment reference)
RECURSIVE RefScoreFrom(_, _, _, _, _)
RefScoreFrom(doc_refs, payment_refs, i, j, max_score) ==
    IF i > Len(doc_refs) THEN max_score
    ELSE IF j > Len(payment_refs)
         THEN RefScoreFrom(doc_refs, payment_refs, i + 1, 1, max_score)
         ELSE RefScoreFrom(doc_refs, payment_refs, i, j + 1,
                  ScoreMaxFirst(max_score,
                                fuzzy_match_score(doc_refs[i], payment_refs[j], <<7, 10>>)))

RefMaxScore(doc_ref, doc_refs, payment_concept, payment_refs) ==
    RefScoreFrom(doc_refs, payment_refs, 1, 1,
                 IF Len(doc_ref) >= 3 /\ IsSubstring(doc_ref, payment_concept)
                 THEN <<19, 20>> ELSE <<0, 1>>)

(***************************************************************************)
(* Missing values.  Dates are day numbers >= 0 and keys are non-empty      *)
(* tuples, so the values below are distinct from every real value.         *)
(***************************************************************************)
\* pd.NaT
NaT == -1
\* None in a DocKey / PagoKey column
NoKey == <<>>
\* np.nan / None in the ResidualFacturaTras column
NaN == -1000000000
\* the Suggestion columns of a row that is not Unallocated
NoSuggestion == "nan"

IsNa(x) == x = NaN

(***************************************************************************)
(* The normalized movement rows handed to reconcile_fifo.                  *)
(***************************************************************************)
\* f"{neto_norm:+.2f}": the sign and the amount rounded to cents
FormatAmount(neto_norm) ==
    <<IF neto_norm < 0 THEN "-" ELSE "+", RoundHalfEven(Abs(neto_norm), Cent)>>

\* work["doc_key"] = tercero | doc or date | cuenta | amount, for the one
\* account of the model
doc_key(tercero, doc, fecha, neto_norm) ==
    <<tercero, IF doc # <<>> THEN doc ELSE <<fecha>>, FormatAmount(neto_norm)>>

\* a row of the frame: the movement m placed at position idx
MakeRow(idx, m) ==
    [idx |-> idx, tercero |-> m.tercero, fecha |-> m.fecha, doc |-> m.doc,
     concepto |-> m.concepto,
     neto_norm |-> m.neto_norm, pre_reconciled |-> m.pre_reconciled,
     doc_key |-> doc_key(m.tercero, m.doc, m.fecha, m.neto_norm)]

(***************************************************************************)
(* Reconciler.add_invoice                                                  *)
(***************************************************************************)
NewOpenInvoice(row) ==
    [doc_key |-> row.doc_key,
     remaining |-> row.neto_norm,
     fecha |-> row.fecha,
     doc_ref |-> IF row.doc # <<>> THEN Strip(Lower(row.doc)) ELSE <<>>,
     doc_refs |-> IF row.doc # <<>> THEN extract_invoice_references(row.doc) ELSE <<>>,
     original_row |-> row]

(***************************************************************************)
(* Reconciler.process_payment.  The running state of one call is a record  *)
(* st = [inv, left, matches]: the open invoices with their remaining       *)
(* balances, payment_left, and the list of matches                         *)
(* (idx, take, method, confidence); idx is a 1-based queue position and a  *)
(* confidence is a rational <<n, d>> until it is rounded when recorded.    *)
(***************************************************************************)
Match(idx, take, method, confidence) ==
    [idx |-> idx, take |-> take, method |-> method, confidence |-> confidence]

\* variant: the invoice keeps its remaining balance
Allocate_KeepRemaining(st, idx, take, method, confidence) ==
    [inv |-> st.inv,
     left |-> st.left - take,
     matches |-> Append(st.matches, Match(idx, take, method, confidence))]

\* matches.append(...); inv["remaining"] -= take; payment_left -= take
Allocate(st, idx, take, method, confidence) ==
    [inv |-> [st.inv EXCEPT ![idx].remaining = @ - take],
     left |-> st.left - take,
     matches |-> Append(st.matches, Match(idx, take, method, confidence))]

\* list.sort(key=score, reverse=True): descending, equal scores keep order
\* variant: the matches stay in queue order
SortByScoreDesc_QueueOrder(s) == s

\* best_ref_matches.sort(key=lambda x: x[1], reverse=True): stable
SortByScoreDesc(s) ==
    LET RECURSIVE Ins(_, _)
        Ins(x, t) == IF t = <<>> THEN <<x>>
                     ELSE IF ScoreGt(x[2], Head(t)[2]) THEN <<x>> \o t
                     ELSE <<Head(t)>> \o Ins(x, Tail(t))
        RECURSIVE Go(_)
        Go(i) == IF i = 0 THEN <<>> ELSE Ins(s[i], Go(i - 1))
    IN Go(Len(s))

\* min(95 + score*5, 100) if score >= 0.9 else 80 + score*15
ReferenceConfidence(score) ==
    IF ScoreGeq(score, <<9, 10>>)
    THEN <<Min(95 * score[2] + 5 * score[1], 100 * score[2]), score[2]>>
    ELSE <<80 * score[2] + 15 * score[1], score[2]>>

\* the (idx, score) list of Phase 1, before sorting: the invoices still
\* open whose score reaches 0.7
RECURSIVE ScoredFrom(_, _, _)
ScoredFrom(inv, scores, idx) ==
    IF idx > Len(inv) THEN <<>>
    ELSE IF inv[idx].remaining > Tol /\ ScoreGeq(scores[idx], <<7, 10>>)
         THEN <<<<idx, scores[idx]>>>> \o ScoredFrom(inv, scores, idx + 1)
         ELSE ScoredFrom(inv, scores, idx + 1)

BestRefMatches(inv, payment_concept, payment_refs) ==
    ScoredFrom(inv,
               [idx \in 1..Len(inv) |->
                   RefMaxScore(inv[idx].doc_ref, inv[idx].doc_refs,
                               payment_concept, payment_refs)],
               1)

\* the allocation loop of Phase 1 over the sorted matches, from position k
RECURSIVE ReferenceAllocate(_, _, _)
ReferenceAllocate(s, best_ref_matches, k) ==
    IF k > Len(best_ref_matches) \/ s.left <= Tol THEN s
    ELSE IF s.inv[best_ref_matches[k][1]].remaining > Tol
         THEN ReferenceAllocate(
                  Allocate(s, best_ref_matches[k][1],
                           Min(s.inv[best_ref_matches[k][1]].remaining, s.left),
                           "Reference", ReferenceConfidence(best_ref_matches[k][2])),
                  best_ref_matches, k + 1)
         ELSE ReferenceAllocate(s, best_ref_matches, k + 1)

\* Phase 1 once payment_concept is lower-cased
Phase1With(st, payment_row, payment_concept) ==
    IF st.left > Tol /\ (payment_concept # <<>> \/ payment_row.doc # <<>>)
    THEN ReferenceAllocate(
             st,
             SortByScoreDesc(BestRefMatches(st.inv, payment_concept,
                                            extract_invoice_references(payment_concept))),
             1)
    ELSE st

\* --- Phase 1: Enhanced Reference Match with Fuzzy Logic ---
Phase1(st, payment_row) == Phase1With(st, payment_row, Lower(payment_row.concepto))

\* variant: candidates strictly inside the tolerance
ExactCandidates_Strict(st) ==
    SelectIdx(st.inv, LAMBDA idx : /\ st.inv[idx].remaining > Tol
                                   /\ Abs(st.inv[idx].remaining - st.left) < Tol)

\* the candidates of Phase 2, in queue order
ExactCandidates(st) ==
    SelectIdx(st.inv, LAMBDA idx : /\ st.inv[idx].remaining > Tol
                                   /\ Abs(st.inv[idx].remaining - st.left) <= Tol)

\* variant: no preference by date, the candidates stay in queue order
ExactDateKey_QueueOrder(inv, payment_date) == 0

\* Prefer candidates closer in date: the sort key of a candidate
ExactDateKey(inv, payment_date) ==
    IF inv.fecha # NaT THEN Abs(inv.fecha - payment_date) ELSE 999999

\* --- Phase 2: Exact Amount Match ---
Phase2(st, payment_row) ==
    IF st.left > Tol
    THEN LET payment_date == payment_row.fecha
             candidates == ExactCandidates(st)
         IN IF candidates # <<>>
            THEN LET sorted == SortBy(candidates,
                                      LAMBDA idx : ExactDateKey(st.inv[idx], payment_date))
                     best_match_idx == sorted[1]
                     take == st.left
                     days_diff == IF payment_date # NaT /\ st.inv[best_match_idx].fecha # NaT
                                  THEN Abs(st.inv[best_match_idx].fecha - payment_date)
                                  ELSE 999
                     confidence == IF days_diff <= 30 THEN 90
                                   ELSE IF days_diff <= 60 THEN 85 ELSE 80
                 IN Allocate(st, best_match_idx, take, "Exact", <<confidence, 1>>)
            ELSE st
    ELSE st

\* open_inv_indices: the (idx, remaining) pairs of the invoices still open,
\* a snapshot that the search loops keep using after allocations
OpenInvIndices(inv) ==
    LET open == SelectIdx(inv, LAMBDA idx : inv[idx].remaining > Tol)
    IN [k \in 1..Len(open) |-> <<open[k], inv[open[k]].remaining>>]

\* variant: the combination has to match within the tolerance alone
CombinedMatches_TolOnly(combined_amount, payment_left) ==
    Abs(combined_amount - payment_left) <= Tol

\* abs(combined_amount - payment_left) <= max(tol, payment_left * 0.01)
CombinedMatches(combined_amount, payment_left) ==
    100 * Abs(combined_amount - payment_left) <= Max(100 * Tol, payment_left)

\* the pair search: for i, for j > i; a qualifying pair is allocated and
\* ends the inner loop; the outer loop ends once payment_left <= tol
PairSearch(st, open_inv_indices) ==
    LET n == Len(open_inv_indices)
        RECURSIVE Go(_, _, _)
        Go(i, j, s) ==
            IF i > n THEN s
            ELSE IF j > n
                 THEN IF s.left <= Tol THEN s ELSE Go(i + 1, i + 2, s)
            ELSE LET idx1 == open_inv_indices[i][1]
                     amount1 == open_inv_indices[i][2]
                     idx2 == open_inv_indices[j][1]
                     amount2 == open_inv_indices[j][2]
                 IN IF CombinedMatches(amount1 + amount2, s.left)
                    THEN LET take1 == Min(s.inv[idx1].remaining, amount1)
                             s1 == Allocate(s, idx1, take1, "CombinedAmount", <<85, 1>>)
                             take2 == Min(s1.inv[idx2].remaining, amount2)
                             s2 == Allocate(s1, idx2, take2, "CombinedAmount", <<85, 1>>)
                         IN IF s2.left <= Tol THEN s2 ELSE Go(i + 1, i + 2, s2)
                    ELSE Go(i, j + 1, s)
    IN IF n >= 2 THEN Go(1, 2, st) ELSE st

\* the allocation of one qualifying triple: each member still open takes
\* min(remaining, snapshot amount)
AllocateTriple(st, members) ==
    LET RECURSIVE Go(_, _)
        Go(m, s) ==
            IF m > Len(members) THEN s
            ELSE LET idx == members[m][1]
                     amount == members[m][2]
                 IN IF s.inv[idx].remaining > Tol
                    THEN Go(m + 1, Allocate(s, idx, Min(s.inv[idx].remaining, amount),
                                            "CombinedAmount", <<80, 1>>))
                    ELSE Go(m + 1, s)
    IN Go(1, st)

\* the triple search: for i, for j > i, for k > j; a qualifying triple is
\* allocated and ends the innermost loop; the two outer loops end once
\* payment_left <= tol
TripleSearch(st, open_inv_indices) ==
    LET n == Len(open_inv_indices)
        RECURSIVE Go(_, _, _, _)
        Go(i, j, k, s) ==
            IF i > n THEN s
            ELSE IF j > n
                 THEN IF s.left <= Tol THEN s ELSE Go(i + 1, i + 2, i + 3, s)
            ELSE IF k > n
                 THEN IF s.left <= Tol THEN s ELSE Go(i, j + 1, j + 2, s)
            ELSE IF CombinedMatches(open_inv_indices[i][2] + open_inv_indices[j][2]
                                      + open_inv_indices[k][2], s.left)
                 THEN LET s3 == AllocateTriple(s, <<open_inv_indices[i],
                                                    open_inv_indices[j],
                                                    open_inv_indices[k]>>)
                      IN IF s3.left <= Tol THEN s3 ELSE Go(i, j + 1, j + 2, s3)
                 ELSE Go(i, j, k + 1, s)
    IN Go(1, 2, 3, st)

\* --- Phase 3: Combined Amount Match (Multiple Invoices) ---
Phase3(st, payment_row) ==
    IF st.left > Tol
    THEN LET first_indices == OpenInvIndices(st.inv)
             s2 == PairSearch(st, first_indices)
             open_inv_indices == IF s2.left > Tol THEN OpenInvIndices(s2.inv)
                                 ELSE first_indices
         IN IF s2.left > Tol /\ Len(open_inv_indices) >= 3
            THEN TripleSearch(s2, open_inv_indices)
            ELSE s2
    ELSE st

\* the (idx, days_diff) candidates of Phase 4, in queue order: invoices
\* dated 0 to 45 days before the payment whose remaining is within 20% of
\* payment_left
ProximityCandidates(st, payment_date) ==
    SelectIdx(st.inv, LAMBDA idx :
        /\ st.inv[idx].remaining > Tol
        /\ st.inv[idx].fecha # NaT
        /\ payment_date - st.inv[idx].fecha >= 0
        /\ payment_date - st.inv[idx].fecha <= 45
        /\ 10 * st.left >= 8 * st.inv[idx].remaining
        /\ 10 * st.left <= 12 * st.inv[idx].remaining)

\* --- Phase 4: Date Proximity Match ---
Phase4(st, payment_row) ==
    LET payment_date == payment_row.fecha IN
    IF st.left > Tol /\ payment_date # NaT
    THEN LET proximity_candidates == ProximityCandidates(st, payment_date)
         IN IF proximity_candidates # <<>>
            THEN LET sorted == SortBy(proximity_candidates,
                                      LAMBDA idx : payment_date - st.inv[idx].fecha)
                     best_idx == sorted[1]
                     days_diff == payment_date - st.inv[best_idx].fecha
                     remaining == st.inv[best_idx].remaining
                     \* 75 - days_diff * 0.5, in halves of a percent
                     date_confidence == 150 - days_diff
                     \* 70 if 0.95 <= amount_ratio <= 1.05 else 65
                     amount_confidence ==
                         IF /\ 100 * st.left >= 95 * remaining
                            /\ 100 * st.left <= 105 * remaining
                         THEN 140 ELSE 130
                 IN IF remaining > Tol
                    THEN Allocate(st, best_idx, Min(remaining, st.left), "DateProximity",
                                  <<Min(date_confidence, amount_confidence), 2>>)
                    ELSE st
            ELSE st
    ELSE st

\* variant: the confidence is not capped
FifoConfidence_NoCap(idx, take, remaining, payment_left, inv_date, payment_date) ==
    LET coverage == IF remaining > 0
                    THEN IF 100 * take >= 90 * remaining /\ 100 * take <= 110 * remaining
                         THEN 15
                         ELSE IF 100 * take >= 80 * remaining /\ 100 * take <= 120 * remaining
                         THEN 10
                         ELSE IF 100 * take >= 40 * remaining THEN 5 ELSE 0
                    ELSE 0
        days_diff == payment_date - inv_date
        proximity == IF payment_date # NaT /\ inv_date # NaT /\ days_diff >= -30
                     THEN IF days_diff <= 45 THEN 20
                          ELSE IF days_diff <= 75 THEN 15
                          ELSE IF days_diff <= 120 THEN 10
                          ELSE IF days_diff <= 180 THEN 5 ELSE 0
                     ELSE 0
        position == IF idx = 1 THEN 5 ELSE 0
        clean == IF Abs(take - payment_left) < Tol \/ Abs(take - remaining) < Tol
                 THEN 5 ELSE 0
    IN 45 + coverage + proximity + position + clean

\* the dynamic confidence of one FIFO allocation
FifoConfidence(idx, take, remaining, payment_left, inv_date, payment_date) ==
    LET coverage == IF remaining > 0
                    THEN IF 100 * take >= 90 * remaining /\ 100 * take <= 110 * remaining
                         THEN 15
                         ELSE IF 100 * take >= 80 * remaining /\ 100 * take <= 120 * remaining
                         THEN 10
                         ELSE IF 100 * take >= 40 * remaining THEN 5 ELSE 0
                    ELSE 0
        days_diff == payment_date - inv_date
        proximity == IF payment_date # NaT /\ inv_date # NaT /\ days_diff >= -30
                     THEN IF days_diff <= 45 THEN 20
                          ELSE IF days_diff <= 75 THEN 15
                          ELSE IF days_diff <= 120 THEN 10
                          ELSE IF days_diff <= 180 THEN 5 ELSE 0
                     ELSE 0
        \* idx == 0 in the code: the first position of the queue
        position == IF idx = 1 THEN 5 ELSE 0
        clean == IF Abs(take - payment_left) < Tol \/ Abs(take - remaining) < Tol
                 THEN 5 ELSE 0
    IN Min(45 + coverage + proximity + position + clean, 75)

\* variant: an invoice is taken only when the payment covers it whole
Phase5_WholeInvoices(st, payment_row) ==
    IF st.left > Tol
    THEN LET RECURSIVE Go(_, _)
             Go(idx, s) ==
                 IF idx > Len(s.inv) THEN s
                 ELSE IF s.inv[idx].remaining <= Tol \/ s.inv[idx].remaining > s.left
                 THEN Go(idx + 1, s)
                 ELSE LET remaining == s.inv[idx].remaining
                          take == Min(remaining, s.left)
                          confidence == FifoConfidence(idx, take, remaining, s.left,
                                                       s.inv[idx].fecha, payment_row.fecha)
                          s1 == Allocate(s, idx, take, "FIFO", <<confidence, 1>>)
                      IN IF s1.left <= Tol THEN s1 ELSE Go(idx + 1, s1)
         IN Go(1, st)
    ELSE st

\* variant: the queue is walked from its newest invoice to its oldest
Phase5_NewestFirst(st, payment_row) ==
    IF st.left > Tol
    THEN LET RECURSIVE Go(_, _)
             Go(idx, s) ==
                 IF idx < 1 THEN s
                 ELSE IF s.inv[idx].remaining <= Tol THEN Go(idx - 1, s)
                 ELSE LET remaining == s.inv[idx].remaining
                          take == Min(remaining, s.left)
                          confidence == FifoConfidence(idx, take, remaining, s.left,
                                                       s.inv[idx].fecha, payment_row.fecha)
                          s1 == Allocate(s, idx, take, "FIFO", <<confidence, 1>>)
                      IN IF s1.left <= Tol THEN s1 ELSE Go(idx - 1, s1)
         IN Go(Len(st.inv), st)
    ELSE st

\* --- Phase 5: FIFO Fallback ---
Phase5(st, payment_row) ==
    IF st.left > Tol
    THEN LET RECURSIVE Go(_, _)
             Go(idx, s) ==
                 IF idx > Len(s.inv) THEN s
                 ELSE IF s.inv[idx].remaining <= Tol THEN Go(idx + 1, s)
                 ELSE LET remaining == s.inv[idx].remaining
                          take == Min(remaining, s.left)
                          confidence == FifoConfidence(idx, take, remaining, s.left,
                                                       s.inv[idx].fecha, payment_row.fecha)
                          s1 == Allocate(s, idx, take, "FIFO", <<confidence, 1>>)
                      IN IF s1.left <= Tol THEN s1 ELSE Go(idx + 1, s1)
         IN Go(1, st)
    ELSE st

\* variant: the Exact phase ahead of the Reference phase
RunPhases_ExactFirst(open_invoices, payment_row) ==
    LET st0 == [inv |-> open_invoices, left |-> -payment_row.neto_norm, matches |-> <<>>]
    IN Phase5(Phase4(Phase3(Phase1(Phase2(st0, payment_row), payment_row),
                            payment_row), payment_row), payment_row)

\* the five phases, in order
RunPhases(open_invoices, payment_row) ==
    LET st0 == [inv |-> open_invoices, left |-> -payment_row.neto_norm, matches |-> <<>>]
    IN Phase5(Phase4(Phase3(Phase2(Phase1(st0, payment_row), payment_row),
                            payment_row), payment_row), payment_row)

(***************************************************************************)
(* Suggestion Engine (generate_unmatched_suggestions), as called by        *)
(* process_payment: without payment history.  The result is the type and   *)
(* the confidence of the top suggestion; its message and action are fixed  *)
(* texts of the type.                                                      *)
(***************************************************************************)
advance_keywords ==
    { <<"a","n","t","i","c","i","p","o">>, <<"a","v","a","n","c","e">>,
      <<"a","d","e","l","a","n","t","o">>, <<"a"," ","c","u","e","n","t","a">>,
      <<"p","r","o","v","i","s","i","ó">>, <<"b","e","s","t","r","e","t","a">> }

credit_keywords ==
    { <<"a","b","o","n","o">>, <<"d","e","v","o","l","u","c","i","ó","n">>,
      <<"c","r","e","d","i","t">>, <<"n","o","t","a">>, <<"n","c">>,
      <<"r","e","e","m","b","o","l","s","o">>, <<"r","e","t","o","r","n">> }

\* f"{amount:.2f}".replace(".", ""): the decimal digits of the amount in
\* cents, at least three of them, most significant first
RECURSIVE DigitsOfCents(_, _)
DigitsOfCents(cents, width) ==
    IF cents < 10 /\ width <= 1 THEN <<cents % 10>>
    ELSE Append(DigitsOfCents(cents \div 10, width - 1), cents % 10)

AmountDigits(amount) == DigitsOfCents(RoundHalfEven(Abs(amount), Cent), 3)

\* exactly two digit positions differ between strings of equal length
DigitTransposition(payment_amount, inv_amount) ==
    LET amount_str == AmountDigits(payment_amount)
        inv_str == AmountDigits(inv_amount)
    IN /\ inv_amount >= 0
       /\ Len(amount_str) = Len(inv_str)
       /\ Cardinality({i \in 1..Len(amount_str) : amount_str[i] # inv_str[i]}) = 2

generate_unmatched_suggestions(payment_amount, concepto, open_invoices) ==
    LET \* str(None).lower() is "none"
        payment_concept == IF concepto = <<>> THEN <<"n","o","n","e">>
                           ELSE Lower(concepto)
        sorted_invoices == SortBy(open_invoices, LAMBDA inv : inv.fecha)
        upcoming_sum == SumSeq([k \in 1..Min(3, Len(sorted_invoices)) |->
                                   sorted_invoices[k].remaining])
    IN IF payment_amount < 50000
       THEN [type |-> "small_amount", confidence |-> 90]
       ELSE IF \E kw \in advance_keywords : IsSubstring(kw, payment_concept)
       THEN [type |-> "advance_payment", confidence |-> 85]
       ELSE IF \E kw \in credit_keywords : IsSubstring(kw, payment_concept)
       THEN [type |-> "credit_note", confidence |-> 80]
       ELSE IF open_invoices # <<>>
               /\ 100 * Abs(upcoming_sum - payment_amount) < 5 * payment_amount
       THEN [type |-> "future_invoices", confidence |-> 75]
       ELSE IF \E k \in 1..Len(open_invoices) :
                   DigitTransposition(payment_amount, open_invoices[k].remaining)
       THEN [type |-> "digit_error", confidence |-> 60]
       ELSE [type |-> "unknown", confidence |-> 0]

(***************************************************************************)
(* Allocation records.  The echoed descriptive columns (counterparty,      *)
(* sheet, account, document and concept of both sides) copy input fields   *)
(* and are left out; "Tercero" is the group key, which every row of the    *)
(* group carries.                                                          *)
(***************************************************************************)
\* round(confidence, 1), in tenths of a percent
RoundConfidence(confidence) == RoundHalfEven(10 * confidence[1], confidence[2])

\* the record of one match, written after all phases: the residual is the
\* invoice's remaining at that time
MatchRow(sid, inv, payment_row, m) ==
    [SetID |-> sid, Tercero |-> payment_row.tercero,
     Fecha_doc |-> inv.fecha, Fecha_pago |-> payment_row.fecha,
     DocKey |-> inv.doc_key, PagoKey |-> payment_row.doc_key,
     Asignado |-> m.take, ResidualFacturaTras |-> inv.remaining,
     MatchMethod |-> m.method, Confidence |-> RoundConfidence(m.confidence),
     Suggestion |-> NoSuggestion, SuggestionConfidence |-> 0]

UnallocatedRow(sid, payment_row, payment_left, suggestion) ==
    [SetID |-> sid, Tercero |-> payment_row.tercero,
     Fecha_doc |-> NaT, Fecha_pago |-> payment_row.fecha,
     DocKey |-> NoKey, PagoKey |-> payment_row.doc_key,
     Asignado |-> -payment_left, ResidualFacturaTras |-> NaN,
     MatchMethod |-> "Unallocated", Confidence |-> 0,
     Suggestion |-> suggestion.type, SuggestionConfidence |-> suggestion.confidence]

OpenRow(sid, inv) ==
    [SetID |-> sid, Tercero |-> inv.original_row.tercero,
     Fecha_doc |-> inv.fecha, Fecha_pago |-> NaT,
     DocKey |-> inv.doc_key, PagoKey |-> NoKey,
     Asignado |-> 0, ResidualFacturaTras |-> inv.remaining,
     MatchMethod |-> "Open", Confidence |-> 0,
     Suggestion |-> NoSuggestion, SuggestionConfidence |-> 0]

PreReconciledRow(sid, row) ==
    IF row.neto_norm > 0
    THEN [SetID |-> sid, Tercero |-> row.tercero,
          Fecha_doc |-> row.fecha, Fecha_pago |-> NaT,
          DocKey |-> row.doc_key, PagoKey |-> NoKey,
          Asignado |-> row.neto_norm, ResidualFacturaTras |-> 0,
          MatchMethod |-> "PreReconciled", Confidence |-> 1000,
          Suggestion |-> NoSuggestion, SuggestionConfidence |-> 0]
    ELSE [SetID |-> sid, Tercero |-> row.tercero,
          Fecha_doc |-> NaT, Fecha_pago |-> row.fecha,
          DocKey |-> NoKey, PagoKey |-> row.doc_key,
          Asignado |-> row.neto_norm, ResidualFacturaTras |-> NaN,
          MatchMethod |-> "PreReconciled", Confidence |-> 1000,
          Suggestion |-> NoSuggestion, SuggestionConfidence |-> 0]

\* process_payment as a function of the Reconciler's state: the new open
\* queue, the records appended to out_rows and the new set id
\* variant: the set id never moves
SetIdAfter_Keep(cleaned, sid) == sid

\* variant: the set id moves after every payment
SetIdAfter_EveryPayment(cleaned, sid) == sid + 1

\* Increment SetID if all invoices are cleared
SetIdAfter(cleaned, sid) == IF cleaned = <<>> THEN sid + 1 ELSE sid

\* variant: an Unallocated record also when exactly the tolerance is left
UnallocatedRows_AtTol(sid, payment_row, payment_left, cleaned) ==
    IF payment_left >= Tol
    THEN <<UnallocatedRow(sid, payment_row, payment_left,
                          generate_unmatched_suggestions(payment_left,
                              payment_row.concepto, cleaned))>>
    ELSE <<>>

\* Handle Unallocated Payment: the record, with the suggestion drawn from
\* the queue after cleanup, when more than the tolerance is left
UnallocatedRows(sid, payment_row, payment_left, cleaned) ==
    IF payment_left > Tol
    THEN <<UnallocatedRow(sid, payment_row, payment_left,
                          generate_unmatched_suggestions(payment_left,
                              payment_row.concepto, cleaned))>>
    ELSE <<>>

\* lines 575-659: what process_payment records once the phases have run
RecordResults(st, sid, payment_row) ==
    LET \* Cleanup fully paid invoices
        cleaned == SelectSeq(st.inv, LAMBDA inv : inv.remaining > Tol)
    IN [open_invoices |-> cleaned,
        rows |-> [k \in 1..Len(st.matches) |->
                     MatchRow(sid, st.inv[st.matches[k].idx], payment_row,
                              st.matches[k])]
                 \o UnallocatedRows(sid, payment_row, st.left, cleaned),
        set_id |-> SetIdAfter(cleaned, sid)]

ProcessPaymentResult(open_invoices, sid, payment_row) ==
    RecordResults(RunPhases(open_invoices, payment_row), sid, payment_row)

(***************************************************************************)
(* reconcile_fifo: partition, chronological order, post-processing.        *)
(***************************************************************************)
\* the sort key (fecha, idx); idx is smaller than 1000
RowOrderKey(row) == row.fecha * 1000 + row.idx

\* the rows of one counterparty in the order of
\* df.sort_values(["tercero", "fecha", "idx"])
SortedFrame(frame) == SortBy(frame, RowOrderKey)

\* the rows of counterparty t, in frame order
RowsOf(frame, t) == SelectSeq(frame, LAMBDA row : row.tercero = t)

\* .groupby(["tercero"]) over the sorted frame: one sorted group per
\* counterparty, the counterparties in ascending order
RECURSIVE GroupsFrom(_, _)
GroupsFrom(frame, terceros) ==
    IF terceros = {} THEN <<>>
    ELSE LET t == CHOOSE x \in terceros : \A y \in terceros : x <= y
         IN <<SortedFrame(RowsOf(frame, t))>> \o GroupsFrom(frame, terceros \ {t})

GroupBy(frame) == GroupsFrom(frame, {frame[i].tercero : i \in 1..Len(frame)})

\* the rows recorded without processing, in frame order
PreReconciledOf(g) == SelectSeq(g, LAMBDA row : row.pre_reconciled)

\* sorted(invoices + payments, key=(fecha, idx)): the matchable movements
\* with a non-zero amount, invoices listed before payments, then sorted
\* variant: the pre-reconciled movements stay in the stream
AllMovementsOf_KeepPre(g) ==
    LET invoices == SelectSeq(g, LAMBDA row : row.neto_norm > 0)
        payments == SelectSeq(g, LAMBDA row : row.neto_norm < 0)
    IN SortBy(invoices \o payments, RowOrderKey)

\* variant: invoices ahead of payments, without the chronological sort
AllMovementsOf_Unsorted(g) ==
    LET invoices == SelectSeq(g, LAMBDA row : ~row.pre_reconciled /\ row.neto_norm > 0)
        payments == SelectSeq(g, LAMBDA row : ~row.pre_reconciled /\ row.neto_norm < 0)
    IN invoices \o payments

AllMovementsOf(g) ==
    LET invoices == SelectSeq(g, LAMBDA row : ~row.pre_reconciled /\ row.neto_norm > 0)
        payments == SelectSeq(g, LAMBDA row : ~row.pre_reconciled /\ row.neto_norm < 0)
    IN SortBy(invoices \o payments, RowOrderKey)

\* flush_remaining: one Open record per invoice left in the queue
FlushRows(open, sid) == [k \in 1..Len(open) |-> OpenRow(sid, open[k])]

\* the position of the first row with the given key in a column, or 0
FirstWithPagoKey(rows, key) ==
    IF \E i \in 1..Len(rows) : rows[i].PagoKey = key
    THEN CHOOSE i \in 1..Len(rows) :
            rows[i].PagoKey = key /\ \A j \in 1..(i - 1) : rows[j].PagoKey # key
    ELSE 0

FirstWithDocKey(rows, key) ==
    IF \E i \in 1..Len(rows) : rows[i].DocKey = key
    THEN CHOOSE i \in 1..Len(rows) :
            rows[i].DocKey = key /\ \A j \in 1..(i - 1) : rows[j].DocKey # key
    ELSE 0

\* the reclassification of one matched (payment, invoice) pair: the first
\* row carrying the payment's PagoKey and the first row carrying the
\* invoice's DocKey are rewritten, in this order
Reclassify(rows, payment, invoice) ==
    LET pay_idx == FirstWithPagoKey(rows, payment.PagoKey)
        inv_idx == FirstWithDocKey(rows, invoice.DocKey)
    IN IF pay_idx # 0 /\ inv_idx # 0
       THEN LET r1 == [rows EXCEPT ![pay_idx].MatchMethod = "PostProcessed",
                                   ![pay_idx].Confidence = 600,
                                   ![pay_idx].Asignado = -Abs(payment.Asignado)]
            IN [r1 EXCEPT ![inv_idx].MatchMethod = "PostProcessed",
                          ![inv_idx].Confidence = 600,
                          ![inv_idx].ResidualFacturaTras = 0]
       ELSE rows

\* the test of the post-processing pass on one Open row
PostMatches(payment, invoice) ==
    /\ ~IsNa(invoice.ResidualFacturaTras)
    /\ invoice.ResidualFacturaTras > Tol
    /\ Abs(Abs(payment.Asignado) - invoice.ResidualFacturaTras) < Tol

\* the post-processing pass over a counterparty's records: the Unallocated
\* rows are taken once, before the loop; the Open rows are queried again
\* for every payment; the first Open row that matches is reclassified
PostProcess(out) ==
    LET unallocated == SelectIdx(out, LAMBDA i : out[i].MatchMethod = "Unallocated")
        RECURSIVE Go(_, _)
        Go(k, rows) ==
            IF k > Len(unallocated) THEN rows
            ELSE LET payment == out[unallocated[k]]
                     open_invs == SelectIdx(rows, LAMBDA i : rows[i].MatchMethod = "Open")
                     hits == SelectSeq(open_invs, LAMBDA i : PostMatches(payment, rows[i]))
                 IN IF open_invs = <<>> THEN rows
                    ELSE IF hits = <<>> THEN Go(k + 1, rows)
                    ELSE Go(k + 1, Reclassify(rows, payment, rows[hits[1]]))
    IN Go(1, out)

\* the stream of lines 724-731 in one piece: the records of a Reconciler
\* fed the movements in order and then flushed
RECURSIVE Stream(_, _, _, _)
Stream(movs, open, out, sid) ==
    IF movs = <<>> THEN out \o FlushRows(open, sid)
    ELSE IF Head(movs).neto_norm > 0
    THEN Stream(Tail(movs), Append(open, NewOpenInvoice(Head(movs))), out, sid)
    ELSE LET res == ProcessPaymentResult(open, sid, Head(movs))
         IN Stream(Tail(movs), res.open_invoices, out \o res.rows, res.set_id)

\* the records reconcile_fifo returns for the matchable movements of a
\* counterparty's frame
MatchableRecords(frame) ==
    PostProcess(Stream(AllMovementsOf(SortedFrame(frame)), <<>>, <<>>, 0))

\* the rows added for the pre-reconciled movements; they carry the
\* Reconciler's final set id
PreReconciledRows(pre, sid) == [k \in 1..Len(pre) |-> PreReconciledRow(sid, pre[k])]

(***************************************************************************)
(* build_pendientes                                                        *)
(***************************************************************************)
\* the key of sort_values(["SetID", "Fecha_pago"], na_position='last');
\* dates are smaller than 1000
PendientesOrderKey(r) ==
    r.SetID * 1001 + (IF r.Fecha_pago = NaT THEN 1000 ELSE r.Fecha_pago)

\* drop_duplicates(subset=["DocKey"], keep="last")
LastStatus(inv_allocs) ==
    SelectSeq([i \in 1..Len(inv_allocs) |->
                  [row |-> inv_allocs[i],
                   kept |-> \A j \in (i + 1)..Len(inv_allocs) :
                               inv_allocs[j].DocKey # inv_allocs[i].DocKey]],
              LAMBDA e : e.kept)

\* one row of the open-items sheet
PendienteRow(r, today) ==
    [Tercero |-> r.Tercero, DocKey |-> r.DocKey,
     ImportePendiente |-> r.ResidualFacturaTras, Fecha |-> r.Fecha_doc,
     Dias |-> Max(today - r.Fecha_doc, 0)]

\* the open items of the detail det on the day today
build_pendientes(det, today) ==
    LET inv_allocs == SortBy(SelectSeq(det, LAMBDA r : r.DocKey # NoKey),
                             PendientesOrderKey)
        pend == SelectSeq(LastStatus(inv_allocs),
                          LAMBDA e : e.row.ResidualFacturaTras > Tol)
    IN [k \in 1..Len(pend) |-> PendienteRow(pend[k].row, today)]

(***************************************************************************)
(* find_col and detect_schema.  A header is a text, as normalize_cols      *)
(* leaves it: lower-case, so that re.IGNORECASE changes nothing.  A        *)
(* regular expression of the pattern lists is a set of alternatives, each  *)
(* a chain of literals that have to occur in this order with anything      *)
(* between them: r"fecha" is one chain of one literal, r"f\.?contab" two   *)
(* alternatives, r"asiento.*fecha" one chain of two literals.  The roles   *)
(* modelled are the five the fallback test and the net column depend on;   *)
(* tercero, documento, concepto and punt are resolved by the same find_col *)
(* over their own lists.                                                   *)
(***************************************************************************)
\* the longest sheet header of the model, in columns
MaxCols == 3

\* None where find_col returns no column name
NoCol == <<>>

\* the chain of literals occurs in the header c, each literal after the end
\* of the one before
RECURSIVE ChainIn(_, _)
ChainIn(chain, c) ==
    IF chain = <<>> THEN TRUE
    ELSE \E i \in 0..(Len(c) - Len(Head(chain))) :
            /\ SubSeq(c, i + 1, i + Len(Head(chain))) = Head(chain)
            /\ ChainIn(Tail(chain), SubSeq(c, i + Len(Head(chain)) + 1, Len(c)))

\* re.search(p, c, flags=re.IGNORECASE) on a lower-case header
re_search(p, c) == \E chain \in p : ChainIn(chain, c)

\* [r"fecha", r"data", r"date", r"f\.?contab", r"asiento.*fecha"]
date_patterns ==
    << {<<<<"f", "e", "c", "h", "a">>>>},
       {<<<<"d", "a", "t", "a">>>>},
       {<<<<"d", "a", "t", "e">>>>},
       {<<<<"f", "c", "o", "n", "t", "a", "b">>>>, <<<<"f", ".", "c", "o", "n", "t", "a", "b">>>>},
       {<<<<"a", "s", "i", "e", "n", "t", "o">>, <<"f", "e", "c", "h", "a">>>>} >>

\* [r"cuenta", r"compte", r"cta", r"account", r"cod.*cta"]
cuenta_patterns ==
    << {<<<<"c", "u", "e", "n", "t", "a">>>>},
       {<<<<"c", "o", "m", "p", "t", "e">>>>},
       {<<<<"c", "t", "a">>>>},
       {<<<<"a", "c", "c", "o", "u", "n", "t">>>>},
       {<<<<"c", "o", "d">>, <<"c", "t", "a">>>>} >>

\* [r"debe", r"deure", r"cargo", r"càrrec", r"debit"]
debe_patterns ==
    << {<<<<"d", "e", "b", "e">>>>},
       {<<<<"d", "e", "u", "r", "e">>>>},
       {<<<<"c", "a", "r", "g", "o">>>>},
       {<<<<"c", "à", "r", "r", "e", "c">>>>},
       {<<<<"d", "e", "b", "i", "t">>>>} >>

\* [r"haber", r"haver", r"abono", r"abonament", r"credit", r"crèdit"]
haber_patterns ==
    << {<<<<"h", "a", "b", "e", "r">>>>},
       {<<<<"h", "a", "v", "e", "r">>>>},
       {<<<<"a", "b", "o", "n", "o">>>>},
       {<<<<"a", "b", "o", "n", "a", "m", "e", "n", "t">>>>},
       {<<<<"c", "r", "e", "d", "i", "t">>>>},
       {<<<<"c", "r", "è", "d", "i", "t">>>>} >>

\* [r"saldo", r"balance"]
saldo_patterns ==
    << {<<<<"s", "a", "l", "d", "o">>>>},
       {<<<<"b", "a", "l", "a", "n", "c", "e">>>>} >>

\* variant: column by column, the first column that matches any pattern
find_col_ColumnMajor(cols, patterns) ==
    LET hits == SelectIdx(cols, LAMBDA k :
                    \E p \in 1..Len(patterns) : re_search(patterns[p], cols[k]))
    IN IF hits # <<>> THEN cols[hits[1]] ELSE NoCol

\* for p in patterns: for c in df.columns: if re.search(p, c): return c
find_col(cols, patterns) ==
    LET RECURSIVE Go(_)
        Go(p) ==
            IF p > Len(patterns) THEN NoCol
            ELSE LET hits == SelectIdx(cols, LAMBDA k : re_search(patterns[p], cols[k]))
                 IN IF hits # <<>> THEN cols[hits[1]] ELSE Go(p + 1)
    IN Go(1)

\* the schema of lines 70-85
PatternSchema(cols) ==
    [fecha |-> find_col(cols, date_patterns),
     cuenta |-> find_col(cols, cuenta_patterns),
     debe |-> find_col(cols, debe_patterns),
     haber |-> find_col(cols, haber_patterns),
     saldo |-> find_col(cols, saldo_patterns)]

\* Fallback for headless sheets: the fixed layout by position
PositionalSchema(cols) ==
    [cuenta |-> cols[1], fecha |-> cols[4], debe |-> cols[7], haber |-> cols[8],
     saldo |-> cols[9]]

detect_schema(cols) ==
    LET sch == PatternSchema(cols)
    IN IF /\ ~(sch.fecha # NoCol /\ sch.cuenta # NoCol
               /\ (sch.debe # NoCol \/ sch.haber # NoCol))
          /\ Len(cols) >= 9
       THEN PositionalSchema(cols)
       ELSE sch

(***************************************************************************)
(* State: the input frame, the position of reconcile_fifo in its run over  *)
(* the counterparty, the movements still to stream, the Reconciler         *)
(* (open_invoices, out_rows, set_id) and the rows returned.                *)
(***************************************************************************)
VARIABLES df, groups, pc, all_movements, pre_reconciled_rows,
          open_invoices, out_rows, set_id, all_rows

\* generate_reconciliation_data: the workbook read (its sheets in order) and
\* the sheet asked for, the sheets still to process, the receivable rows
\* collected, the per-sheet notes and the sheets returned
VARIABLES xls, sheet_filter, sheets_to_process, ar_rows, meta_rows, out_sheets

genvars == <<xls, sheet_filter, sheets_to_process, ar_rows, meta_rows, out_sheets>>

\* detect_schema: the headers of the sheet read and the schema returned
VARIABLES columns, schema

\* extract_invoice_references on a text "<start>-<end>": the two numbers as
\* written and the references returned
VARIABLES range_text, references

fnvars == <<columns, schema, range_text, references>>

\* no schema yet
NoSchema ==
    [fecha |-> NoCol, cuenta |-> NoCol, debe |-> NoCol, haber |-> NoCol, saldo |-> NoCol]

vars == <<df, groups, pc, all_movements, pre_reconciled_rows,
          open_invoices, out_rows, set_id, all_rows, genvars, fnvars>>

\* variant: the Reconciler of the previous counterparty is kept
Reconciler_Shared(open, out, sid) ==
    [open_invoices |-> open, out_rows |-> out, set_id |-> sid]

\* Reconciler(tol=tol): a new object for every counterparty, whatever the
\* previous one (open, out, sid) held
Reconciler(open, out, sid) ==
    [open_invoices |-> <<>>, out_rows |-> <<>>, set_id |-> 0]

\* the frames of 1 to max rows over a catalog of movements, idx = row number
FramesUpTo(catalog, max) ==
    UNION { { [i \in 1..n |-> MakeRow(i - 1, f[i])] : f \in [1..n -> catalog] }
            : n \in 1..max }

\* the frames of 1 to MaxMov rows over a catalog
Frames(catalog) == FramesUpTo(catalog, MaxMov)

\* the state at the start of reconcile_fifo's loop over the counterparties,
\* on one of the given frames
InitOn(frames) ==
    /\ df \in frames
    /\ groups = GroupBy(df)
    /\ xls = <<>> /\ sheet_filter = <<>> /\ sheets_to_process = <<>>
    /\ ar_rows = <<>> /\ meta_rows = <<>> /\ out_sheets = {}
    /\ pc = "partition"
    /\ all_movements = <<>>
    /\ pre_reconciled_rows = <<>>
    /\ open_invoices = <<>>
    /\ out_rows = <<>>
    /\ set_id = 0
    /\ all_rows = <<>>
    /\ columns = <<>> /\ schema = NoSchema
    /\ range_text = <<>> /\ references = <<>>

InitWith(catalog) == InitOn(Frames(catalog))

\* lines 695-722: the next counterparty's group, a new Reconciler, the
\* pre-reconciled rows split off and the rest put in order
Partition ==
    /\ pc = "partition"
    /\ groups # <<>>
    /\ \E reconciler \in {Reconciler(open_invoices, out_rows, set_id)} :
          /\ open_invoices' = reconciler.open_invoices
          /\ out_rows' = reconciler.out_rows
          /\ set_id' = reconciler.set_id
    /\ pre_reconciled_rows' = PreReconciledOf(Head(groups))
    /\ all_movements' = AllMovementsOf(Head(groups))
    /\ groups' = Tail(groups)
    /\ pc' = "stream"
    /\ UNCHANGED <<df, all_rows>>
    /\ UNCHANGED genvars
    /\ UNCHANGED fnvars

\* lines 724-727: the next movement is an invoice
AddInvoice ==
    /\ pc = "stream"
    /\ all_movements # <<>>
    /\ Head(all_movements).neto_norm > 0
    /\ open_invoices' = Append(open_invoices, NewOpenInvoice(Head(all_movements)))
    /\ all_movements' = Tail(all_movements)
    /\ UNCHANGED <<df, groups, pc, pre_reconciled_rows, out_rows, set_id, all_rows>>
    /\ UNCHANGED genvars
    /\ UNCHANGED fnvars

\* lines 728-729: the next movement is a payment
ProcessPayment ==
    /\ pc = "stream"
    /\ all_movements # <<>>
    /\ Head(all_movements).neto_norm < 0
    /\ \E res \in {ProcessPaymentResult(open_invoices, set_id, Head(all_movements))} :
          /\ open_invoices' = res.open_invoices
          /\ out_rows' = out_rows \o res.rows
          /\ set_id' = res.set_id
    /\ all_movements' = Tail(all_movements)
    /\ UNCHANGED <<df, groups, pc, pre_reconciled_rows, all_rows>>
    /\ UNCHANGED genvars
    /\ UNCHANGED fnvars

\* line 731: end of stream
FlushRemaining ==
    /\ pc = "stream"
    /\ all_movements = <<>>
    /\ out_rows' = out_rows \o FlushRows(open_invoices, set_id)
    /\ pc' = "post"
    /\ UNCHANGED <<df, groups, all_movements, pre_reconciled_rows, open_invoices, set_id, all_rows>>
    /\ UNCHANGED genvars
    /\ UNCHANGED fnvars

\* lines 733-771
PostProcessing ==
    /\ pc = "post"
    /\ all_rows' = all_rows \o PostProcess(out_rows)
    /\ pc' = "pre"
    /\ UNCHANGED <<df, groups, all_movements, pre_reconciled_rows, open_invoices, out_rows, set_id>>
    /\ UNCHANGED genvars
    /\ UNCHANGED fnvars

\* lines 773-823, then the next counterparty or the end of the loop
AddPreReconciled ==
    /\ pc = "pre"
    /\ all_rows' = all_rows \o PreReconciledRows(pre_reconciled_rows, set_id)
    /\ pc' = IF groups = <<>> THEN "done" ELSE "partition"
    /\ UNCHANGED <<df, groups, all_movements, pre_reconciled_rows, open_invoices, out_rows, set_id>>
    /\ UNCHANGED genvars
    /\ UNCHANGED fnvars

Next ==
    \/ Partition
    \/ AddInvoice
    \/ ProcessPayment
    \/ FlushRemaining
    \/ PostProcessing
    \/ AddPreReconciled

(***************************************************************************)
(* Texts and movements of the catalogs.                                    *)
(***************************************************************************)
FAC_100 == <<"F", "A", "C", " ", "1", "0", "0">>

pago_fac_100 == <<"p", "a", "g", "o", " ", "f", "a", "c", " ", "1", "0", "0">>

Invoice(amount, doc, fecha) ==
    [tercero |-> 1, fecha |-> fecha, doc |-> doc, concepto |-> <<>>,
     neto_norm |-> amount, pre_reconciled |-> FALSE]

Payment(amount, concepto, fecha) ==
    [tercero |-> 1, fecha |-> fecha, doc |-> <<>>, concepto |-> concepto,
     neto_norm |-> -amount, pre_reconciled |-> FALSE]

\* invoices of 3.00 (document "FAC 100") and 7.00, payments of 10.00
\* (concept "pago fac 100"), 9.95 and 0.01, dated day 0 or day 5
Catalog ==
    UNION { { Invoice(3000, FAC_100, d), Invoice(7000, <<>>, d),
              Payment(10000, pago_fac_100, d), Payment(9950, <<>>, d),
              Payment(10, <<>>, d) } : d \in {0, 5} }

Init == InitWith(Catalog)

Spec == Init /\ [][Next]_vars

\* amounts around the tolerance, all dated day 0: invoices of 10.00, 9.998,
\* 9.99, 3.00 and 0.02 (the last two with document "FAC 100"), payments of 10.00
\* (concept "pago fac 100"), 10.009, 10.010 and 10.011
CatalogTol ==
    { Invoice(10000, <<>>, 0), Invoice(9998, <<>>, 0), Invoice(9990, <<>>, 0),
      Invoice(3000, FAC_100, 0), Invoice(20, FAC_100, 0),
      Payment(10000, pago_fac_100, 0), Payment(10009, <<>>, 0),
      Payment(10010, <<>>, 0), Payment(10011, <<>>, 0) }

InitTol == InitWith(CatalogTol)

SpecTol == InitTol /\ [][Next]_vars

\* the movements of a catalog, each also in a pre-reconciled copy
WithPreReconciled(catalog) ==
    catalog \cup { [m EXCEPT !.pre_reconciled = TRUE] : m \in catalog }

\* invoices of 3.00 (document "FAC 100") and 7.00, payments of 10.00
\* (concept "pago fac 100") and 3.00, dated day 0, matchable or pre-reconciled
CatalogPre ==
    WithPreReconciled({ Invoice(3000, FAC_100, 0), Invoice(7000, <<>>, 0),
                        Payment(10000, pago_fac_100, 0), Payment(3000, <<>>, 0) })

InitPre == InitWith(CatalogPre)

SpecPre == InitPre /\ [][Next]_vars

\* the movement m booked for counterparty t
OfTercero(t, m) == [m EXCEPT !.tercero = t]

\* invoices of 3.00 (document "FAC 100") and 7.00, payments of 10.00
\* (concept "pago fac 100") and 3.00, dated day 0, of counterparties 1 and 2
CatalogTerceros ==
    { OfTercero(t, m) :
        t \in {1, 2},
        m \in { Invoice(3000, FAC_100, 0), Invoice(7000, <<>>, 0),
                Payment(10000, pago_fac_100, 0), Payment(3000, <<>>, 0) } }

InitTerceros == InitWith(CatalogTerceros)

SpecTerceros == InitTerceros /\ [][Next]_vars

\* a payment of 7.00 dated day 0; invoices of 10.00 and 3.00 (document
\* "FAC 100") and payments of 3.00 and 10.00 (concept "pago fac 100") dated
\* day 5
CatalogPendientes ==
    { Payment(7000, <<>>, 0), Invoice(10000, <<>>, 5), Invoice(3000, FAC_100, 5),
      Payment(3000, <<>>, 5), Payment(10000, pago_fac_100, 5) }

InitPendientes == InitWith(CatalogPendientes)

SpecPendientes == InitPendientes /\ [][Next]_vars

\* invoices of 10.00 dated day 0, 40 and 70, an invoice of 9.994 dated day 70
\* and a payment of 10.00 dated day 100
CatalogExact ==
    { Invoice(10000, <<>>, 0), Invoice(10000, <<>>, 40), Invoice(10000, <<>>, 70),
      Invoice(9994, <<>>, 70), Payment(10000, <<>>, 100) }

InitExact == InitWith(CatalogExact)

SpecExact == InitExact /\ [][Next]_vars

\* invoices of 3.00 with documents "1200", "1000" and "FAC 100", an invoice
\* of 2.00 with document "FAC 100", an invoice of 7.00 without document and a
\* payment of 4.00 with concept "pago fac 100", dated day 0
CatalogReference ==
    { Invoice(3000, <<"1", "2", "0", "0">>, 0), Invoice(3000, <<"1", "0", "0", "0">>, 0),
      Invoice(3000, FAC_100, 0), Invoice(2000, FAC_100, 0), Invoice(7000, <<>>, 0),
      Payment(4000, pago_fac_100, 0) }

InitReference == InitWith(CatalogReference)

SpecReference == InitReference /\ [][Next]_vars

\* the longest frame of the catalog of combinations
MaxCombined == 4

\* invoices of 300.00, 700.00, 500.00 and 2.00, payments of 1000.00,
\* 1500.00 and 706.00, without documents or concepts, dated day 0
CatalogCombined ==
    { Invoice(300000, <<>>, 0), Invoice(700000, <<>>, 0), Invoice(500000, <<>>, 0),
      Invoice(2000, <<>>, 0), Payment(1000000, <<>>, 0), Payment(1500000, <<>>, 0),
      Payment(706000, <<>>, 0) }

InitCombined == InitOn(FramesUpTo(CatalogCombined, MaxCombined))

SpecCombined == InitCombined /\ [][Next]_vars

\* invoices of 0.01 and 7.00, payments of 7.00 and 0.01, without documents
\* or concepts, dated day 0
CatalogSmall ==
    { Invoice(10, <<>>, 0), Invoice(7000, <<>>, 0),
      Payment(7000, <<>>, 0), Payment(10, <<>>, 0) }

InitSmall == InitWith(CatalogSmall)

SpecSmall == InitSmall /\ [][Next]_vars

\* movements that reach every method: invoices of 3.00 (document "FAC 100")
\* and 7.00, payments of 10.00 (concept "pago fac 100"), 3.00 and 14.00 of
\* day 0 and a payment of 7.50 of day 45, a pre-reconciled invoice of 7.00
\* and a pre-reconciled payment of 3.00
CatalogConfidence ==
    { Invoice(3000, FAC_100, 0), Invoice(7000, <<>>, 0),
      Payment(10000, pago_fac_100, 0), Payment(3000, <<>>, 0),
      Payment(14000, <<>>, 0), Payment(7500, <<>>, 45),
      [Invoice(7000, <<>>, 0) EXCEPT !.pre_reconciled = TRUE],
      [Payment(3000, <<>>, 0) EXCEPT !.pre_reconciled = TRUE] }

InitConfidence == InitWith(CatalogConfidence)

SpecConfidence == InitConfidence /\ [][Next]_vars

\* invoices of 700.00 and 2.00 of day 0 and of 2.00 of day 5, a payment of
\* 706.00 of day 5, without documents or concepts: every movement has a
\* key of its own
CatalogSnapshot ==
    { Invoice(700000, <<>>, 0), Invoice(2000, <<>>, 0), Invoice(2000, <<>>, 5),
      Payment(706000, <<>>, 5) }

InitSnapshot == InitOn(FramesUpTo(CatalogSnapshot, MaxCombined))

SpecSnapshot == InitSnapshot /\ [][Next]_vars

(***************************************************************************)
(* generate_reconciliation_data: the sheets of the workbook are filtered,  *)
(* read one by one, and the receivable rows collected are handed to        *)
(* reconcile_fifo.  A sheet is modelled by its name, the column roles      *)
(* detect_schema resolved in it and its movements, all of a receivable     *)
(* account; the payable side runs the same code and is left out.           *)
(***************************************************************************)
MaxSheets == 2

\* Skip sheets that are generated by this system
system_generated_sheets ==
    {"Meta", "Resumen", "Clientes_Detalle", "Proveedores_Detalle",
     "Pendientes_Clientes", "Pendientes_Proveedores",
     "AR_Detalle", "AP_Detalle", "Pendientes_AR", "Pendientes_AP"}

\* Python's None where a column name, a sheet name or a note is expected
None == "None"

\* net_col: debit minus credit when both columns exist, else the single
\* amount column, else None
NetCol(sheet) ==
    IF sheet.debe /\ sheet.haber THEN "_neto_"
    ELSE IF sheet.importe_cols = 1 THEN "importe"
    ELSE None

\* if sch["cuenta"] is None or net_col is None
Unusable(sheet) == ~sheet.cuenta \/ NetCol(sheet) = None

\* the names of the workbook's sheets, in order
SheetNames(book) == [k \in 1..Len(book) |-> book[k].name]

\* the sheet of the workbook with the given name
SheetNamed(book, name) ==
    book[CHOOSE k \in 1..Len(book) : book[k].name = name]

\* [sheet_filter] if sheet_filter else xls.sheet_names, without the
\* system-generated sheets
SheetsToProcess(book, filter) ==
    SelectSeq(IF filter # None THEN <<filter>> ELSE SheetNames(book),
              LAMBDA name : name \notin system_generated_sheets)

\* the note kept for a sheet that is skipped
ErrorMeta(name) == [Hoja |-> name, Error |-> "Falta columna Cuenta o Neto"]

\* the note kept for a sheet that is read
SheetMeta(name) == [Hoja |-> name, Error |-> None]

\* ar_all: the collected rows, idx = np.arange(len(ar_all))
FrameOf(rows) == [i \in 1..Len(rows) |-> MakeRow(i - 1, rows[i])]

\* lines 1547-1554
FilterSheets ==
    /\ pc = "filter"
    /\ sheets_to_process' = SheetsToProcess(xls, sheet_filter)
    /\ pc' = IF sheets_to_process' = <<>> THEN "ValueError" ELSE "sheets"
    /\ UNCHANGED <<df, groups, all_movements, pre_reconciled_rows, open_invoices,
                   out_rows, set_id, all_rows>>
    /\ UNCHANGED <<xls, sheet_filter, ar_rows, meta_rows, out_sheets>>
    /\ UNCHANGED fnvars

\* lines 1556-1558: the sheet asked for is not in the workbook
MissingSheet ==
    /\ pc = "sheets"
    /\ sheets_to_process # <<>>
    /\ \A k \in 1..Len(xls) : xls[k].name # Head(sheets_to_process)
    /\ sheets_to_process' = Tail(sheets_to_process)
    /\ UNCHANGED <<df, groups, pc, all_movements, pre_reconciled_rows, open_invoices,
                   out_rows, set_id, all_rows>>
    /\ UNCHANGED <<xls, sheet_filter, ar_rows, meta_rows, out_sheets>>
    /\ UNCHANGED fnvars

\* lines 1560-1606: a sheet without account or net column is skipped
SkipSheet ==
    /\ pc = "sheets"
    /\ sheets_to_process # <<>>
    /\ \E k \in 1..Len(xls) : xls[k].name = Head(sheets_to_process)
    /\ Unusable(SheetNamed(xls, Head(sheets_to_process)))
    /\ meta_rows' = Append(meta_rows, ErrorMeta(Head(sheets_to_process)))
    /\ sheets_to_process' = Tail(sheets_to_process)
    /\ UNCHANGED <<df, groups, pc, all_movements, pre_reconciled_rows, open_invoices,
                   out_rows, set_id, all_rows>>
    /\ UNCHANGED <<xls, sheet_filter, ar_rows, out_sheets>>
    /\ UNCHANGED fnvars

\* lines 1560-1676: a sheet with both columns is read
ReadSheet ==
    /\ pc = "sheets"
    /\ sheets_to_process # <<>>
    /\ \E k \in 1..Len(xls) : xls[k].name = Head(sheets_to_process)
    /\ ~Unusable(SheetNamed(xls, Head(sheets_to_process)))
    /\ meta_rows' = Append(meta_rows, SheetMeta(Head(sheets_to_process)))
    /\ ar_rows' = ar_rows \o SheetNamed(xls, Head(sheets_to_process)).rows
    /\ sheets_to_process' = Tail(sheets_to_process)
    /\ UNCHANGED <<df, groups, pc, all_movements, pre_reconciled_rows, open_invoices,
                   out_rows, set_id, all_rows>>
    /\ UNCHANGED <<xls, sheet_filter, out_sheets>>
    /\ UNCHANGED fnvars

\* lines 1680-1685: rows were collected, reconcile_fifo is called on them
CallReconcile ==
    /\ pc = "sheets"
    /\ sheets_to_process = <<>>
    /\ ar_rows # <<>>
    /\ df' = FrameOf(ar_rows)
    /\ groups' = GroupBy(df')
    /\ pc' = "partition"
    /\ UNCHANGED <<all_movements, pre_reconciled_rows, open_invoices,
                   out_rows, set_id, all_rows>>
    /\ UNCHANGED genvars
    /\ UNCHANGED fnvars

\* lines 1680-1732: no rows were collected, the summary and the notes are
\* returned alone
ReturnEmpty ==
    /\ pc = "sheets"
    /\ sheets_to_process = <<>>
    /\ ar_rows = <<>>
    /\ out_sheets' = {"Resumen", "Meta"}
    /\ pc' = "returned"
    /\ UNCHANGED <<df, groups, all_movements, pre_reconciled_rows, open_invoices,
                   out_rows, set_id, all_rows>>
    /\ UNCHANGED <<xls, sheet_filter, sheets_to_process, ar_rows, meta_rows>>
    /\ UNCHANGED fnvars

\* lines 1686-1732: reconcile_fifo has returned
ReturnSheets ==
    /\ pc = "done"
    /\ xls # <<>>
    /\ out_sheets' = {"Clientes_Detalle", "Pendientes_Clientes",
                      "Clientes_Cuentas_Corrientes", "Resumen", "Meta"}
    /\ pc' = "returned"
    /\ UNCHANGED <<df, groups, all_movements, pre_reconciled_rows, open_invoices,
                   out_rows, set_id, all_rows>>
    /\ UNCHANGED <<xls, sheet_filter, sheets_to_process, ar_rows, meta_rows>>
    /\ UNCHANGED fnvars

NextSheets ==
    \/ FilterSheets
    \/ MissingSheet
    \/ SkipSheet
    \/ ReadSheet
    \/ CallReconcile
    \/ ReturnEmpty
    \/ ReturnSheets
    \/ Next

\* the column roles resolved in a sheet: debit and credit; one amount
\* column; no account column; two amount columns and no credit
Layouts ==
    { [cuenta |-> TRUE, debe |-> TRUE, haber |-> TRUE, importe_cols |-> 0],
      [cuenta |-> TRUE, debe |-> FALSE, haber |-> FALSE, importe_cols |-> 1],
      [cuenta |-> FALSE, debe |-> TRUE, haber |-> TRUE, importe_cols |-> 0],
      [cuenta |-> TRUE, debe |-> TRUE, haber |-> FALSE, importe_cols |-> 2] }

\* the movements of the catalog's sheets
SheetRows(name) ==
    IF name = "Diario" THEN <<Invoice(3000, FAC_100, 0), Payment(3000, <<>>, 0)>>
    ELSE IF name = "Mayor" THEN <<Invoice(7000, <<>>, 0)>>
    ELSE <<>>

\* the sheets a workbook may hold
SheetCatalog ==
    { [name |-> n, cuenta |-> l.cuenta, debe |-> l.debe, haber |-> l.haber,
       importe_cols |-> l.importe_cols, rows |-> SheetRows(n)] :
        n \in {"Diario", "Mayor"}, l \in Layouts }
    \cup { [name |-> "Meta", cuenta |-> FALSE, debe |-> FALSE, haber |-> FALSE,
            importe_cols |-> 0, rows |-> <<>>] }

\* the workbooks of 1 to MaxSheets sheets with distinct names
Workbooks ==
    UNION { { b \in [1..n -> SheetCatalog] :
                \A i, j \in 1..n : i # j => b[i].name # b[j].name }
            : n \in 1..MaxSheets }

InitSheets ==
    /\ xls \in Workbooks
    /\ sheet_filter \in {None, "Diario", "Meta"}
    /\ sheets_to_process = <<>> /\ ar_rows = <<>> /\ meta_rows = <<>>
    /\ out_sheets = {}
    /\ pc = "filter"
    /\ df = <<>> /\ groups = <<>>
    /\ all_movements = <<>> /\ pre_reconciled_rows = <<>>
    /\ open_invoices = <<>> /\ out_rows = <<>> /\ set_id = 0 /\ all_rows = <<>>
    /\ columns = <<>> /\ schema = NoSchema
    /\ range_text = <<>> /\ references = <<>>

SpecSheets == InitSheets /\ [][NextSheets]_vars

(***************************************************************************)
(* detect_schema on the headers of one sheet.                              *)
(***************************************************************************)
\* lines 67-103
DetectSchema ==
    /\ pc = "schema"
    /\ schema' = detect_schema(columns)
    /\ pc' = "detected"
    /\ UNCHANGED <<df, groups, all_movements, pre_reconciled_rows, open_invoices,
                   out_rows, set_id, all_rows, columns, range_text, references>>
    /\ UNCHANGED genvars

NextSchema == DetectSchema

\* the headers a sheet may carry
Headers ==
    { <<"f", "e", "c", "h", "a">>,
      <<"d", "a", "t", "a">>,
      <<"d", "e", "b", "e">>,
      <<"d", "e", "b", "i", "t">>,
      <<"h", "a", "b", "e", "r">>,
      <<"s", "a", "l", "d", "o">>,
      <<"i", "m", "p", "o", "r", "t", "e">> }

\* the header rows of 1 to MaxCols columns with distinct names
HeaderRows ==
    UNION { { h \in [1..n -> Headers] : \A i, j \in 1..n : i # j => h[i] # h[j] }
            : n \in 1..MaxCols }

InitSchema ==
    /\ columns \in HeaderRows
    /\ schema = NoSchema
    /\ range_text = <<>> /\ references = <<>>
    /\ pc = "schema"
    /\ xls = <<>> /\ sheet_filter = <<>> /\ sheets_to_process = <<>>
    /\ ar_rows = <<>> /\ meta_rows = <<>> /\ out_sheets = {}
    /\ df = <<>> /\ groups = <<>>
    /\ all_movements = <<>> /\ pre_reconciled_rows = <<>>
    /\ open_invoices = <<>> /\ out_rows = <<>> /\ set_id = 0 /\ all_rows = <<>>

SpecSchema == InitSchema /\ [][NextSchema]_vars

(***************************************************************************)
(* extract_invoice_references on a text that holds one numeric range.      *)
(***************************************************************************)
\* lines 105-199
ExtractReferences ==
    /\ pc = "extract"
    /\ references' = extract_range_references(range_text[1], range_text[2])
    /\ pc' = "extracted"
    /\ UNCHANGED <<df, groups, all_movements, pre_reconciled_rows, open_invoices,
                   out_rows, set_id, all_rows, columns, schema, range_text>>
    /\ UNCHANGED genvars

NextRanges == ExtractReferences

\* the numbers a range may start with, as written
RangeStarts ==
    { <<"5">>, <<"9", "5">>, <<"9", "9", "8">>,
      <<"0", "9", "9", "8">>, <<"1", "0", "0", "0">>, <<"1", "2", "3", "4">>,
      <<"1", "2", "3", "4", "5">> }

\* the numbers a range may end with, as written
RangeEnds ==
    { <<"8">>, <<"3", "6">>, <<"0", "5">>,
      <<"1", "0", "0", "8">>, <<"1", "0", "0", "9">>, <<"1", "0", "1", "0">>,
      <<"1", "0", "1", "1">>, <<"1", "2", "3", "6">>, <<"1", "2", "3", "5", "0">> }

InitRanges ==
    /\ range_text \in RangeStarts \X RangeEnds
    /\ references = <<>>
    /\ pc = "extract"
    /\ columns = <<>> /\ schema = NoSchema
    /\ xls = <<>> /\ sheet_filter = <<>> /\ sheets_to_process = <<>>
    /\ ar_rows = <<>> /\ meta_rows = <<>> /\ out_sheets = {}
    /\ df = <<>> /\ groups = <<>>
    /\ all_movements = <<>> /\ pre_reconciled_rows = <<>>
    /\ open_invoices = <<>> /\ out_rows = <<>> /\ set_id = 0 /\ all_rows = <<>>

SpecRanges == InitRanges /\ [][NextRanges]_vars

(***************************************************************************)
(* Vocabulary of the properties.                                           *)
(***************************************************************************)
PhaseMethods == {"Reference", "Exact", "CombinedAmount", "DateProximity", "FIFO"}

\* the next step of the run is process_payment on the head movement
PaymentDue ==
    pc = "stream" /\ all_movements # <<>> /\ Head(all_movements).neto_norm < 0

\* the next step of the run is add_invoice on the head movement
InvoiceDue ==
    pc = "stream" /\ all_movements # <<>> /\ Head(all_movements).neto_norm > 0

\* the records a step appends to out_rows
NewRows == SubSeq(out_rows', Len(out_rows) + 1, Len(out_rows'))

RowsWithDocKey(rows, key) == SelectSeq(rows, LAMBDA r : r.DocKey = key)

SumAsignado(rows) == SumSeq([k \in 1..Len(rows) |-> rows[k].Asignado])

SumAbsAsignado(rows) == SumSeq([k \in 1..Len(rows) |-> Abs(rows[k].Asignado)])

\* the row of the frame is the only one with its document key
UniqueKey(i) == \A j \in 1..Len(df) : j # i => df[j].doc_key # df[i].doc_key

\* what the records say about the invoice with the given key: the sum of
\* the amounts allocated to it plus the residual on its last record
AccountedFor(rows, key) ==
    LET recs == RowsWithDocKey(rows, key)
    IN IF recs = <<>> THEN 0
       ELSE SumAsignado(recs) + recs[Len(recs)].ResidualFacturaTras

(***************************************************************************)
(* C1  Invoice conservation: in the records returned for the counterparty, *)
(* for every matchable invoice (with a document key of its own), the sum   *)
(* of the amounts of the records referencing its key plus the residual on  *)
(* its last record equals its original amount within the tolerance.        *)
(***************************************************************************)
C1_InvoiceConservation ==
    pc = "done" =>
        \A i \in 1..Len(df) :
            (~df[i].pre_reconciled /\ df[i].neto_norm > 0 /\ UniqueKey(i))
            => Abs(AccountedFor(all_rows, df[i].doc_key) - df[i].neto_norm) <= Tol

(***************************************************************************)
(* C2  Payment conservation: the amounts of the allocation records that    *)
(* process_payment writes for a payment plus the absolute amount of its    *)
(* Unallocated record equal the payment's absolute amount within the       *)
(* tolerance.                                                              *)
(***************************************************************************)
C2_PaymentConservation ==
    [][PaymentDue =>
          Abs(SumAbsAsignado(NewRows) + Head(all_movements).neto_norm) <= Tol]_vars

(***************************************************************************)
(* Vocabulary of the phase properties: what the queue looks like to the    *)
(* payment about to be processed.                                          *)
(***************************************************************************)
\* the reference score of the open invoice at queue position idx for the
\* payment row
ScoreFor(idx, payment_row) ==
    RefMaxScore(open_invoices[idx].doc_ref, open_invoices[idx].doc_refs,
                Lower(payment_row.concepto),
                extract_invoice_references(Lower(payment_row.concepto)))

\* the open invoice at idx matches the payment by reference
ReferenceMatched(idx, payment_row) ==
    /\ open_invoices[idx].remaining > Tol
    /\ ScoreGeq(ScoreFor(idx, payment_row), <<7, 10>>)

\* the open invoice at idx has remaining equal to the payment amount
AmountMatched(idx, payment_row) ==
    /\ open_invoices[idx].remaining > Tol
    /\ Abs(open_invoices[idx].remaining + payment_row.neto_norm) <= Tol

\* the key of the open invoice at idx is carried by no other queued invoice
UniqueInQueue(idx) ==
    \A j \in 1..Len(open_invoices) :
        j # idx => open_invoices[j].doc_key # open_invoices[idx].doc_key

\* the case of the phase-priority rule: a reference-matched open invoice
\* and a different open invoice b whose remaining equals the payment amount
PriorityCase(b) ==
    /\ PaymentDue
    /\ b \in 1..Len(open_invoices)
    /\ UniqueInQueue(b)
    /\ AmountMatched(b, Head(all_movements))
    /\ \E a \in 1..Len(open_invoices) :
          a # b /\ ReferenceMatched(a, Head(all_movements))

ExactRowFor(rows, key) ==
    \E k \in 1..Len(rows) : rows[k].MatchMethod = "Exact" /\ rows[k].DocKey = key

ReferenceTaken(rows) ==
    SumAsignado(SelectSeq(rows, LAMBDA r : r.MatchMethod = "Reference"))

C4_ExactBoundary ==
    [][PaymentDue =>
          LET payment_row == Head(all_movements)
              s1 == Phase1([inv |-> open_invoices, left |-> -payment_row.neto_norm,
                            matches |-> <<>>], payment_row)
              exact == SelectSeq(NewRows, LAMBDA r : r.MatchMethod = "Exact")
              near(d) == \E idx \in 1..Len(s1.inv) :
                            /\ s1.inv[idx].remaining > Tol
                            /\ Abs(s1.inv[idx].remaining - s1.left) <= d
          IN /\ (exact # <<>>) <=> (s1.left > Tol /\ near(Tol))
             /\ (s1.left > Tol /\ near(Tol - 1)) => exact # <<>>
             /\ (s1.left > Tol /\ ~near(Tol)) => exact = <<>>
             /\ \A k \in 1..Len(exact) :
                   /\ exact[k].Asignado = s1.left
                   /\ Abs(exact[k].ResidualFacturaTras) <= Tol]_vars

\* a run in which the payment of 10.009 met the open invoices of 9.998 and
\* 10.00, in that order: the Exact record went to the invoice 0.009 below
\* the payment and the invoice 0.011 below it stayed open
C4_Witness ==
    /\ pc = "done"
    /\ Len(df) = 3
    /\ df[1].neto_norm = 9998 /\ df[2].neto_norm = 10000 /\ df[3].neto_norm = -10009
    /\ \E i \in 1..Len(out_rows) :
          /\ out_rows[i].MatchMethod = "Exact"
          /\ out_rows[i].Asignado = 10009
          /\ out_rows[i].ResidualFacturaTras = -(Tol - 1)
    /\ \E j \in 1..Len(out_rows) :
          /\ out_rows[j].MatchMethod = "Open"
          /\ out_rows[j].ResidualFacturaTras = 9998

(***************************************************************************)
(* The reclassification the post-processing rule describes, on the records *)
(* out of one counterparty: each Unallocated record, in order, is paired   *)
(* with the first record still Open whose residual is within the tolerance *)
(* of the unallocated amount; the result is the set of reclassified        *)
(* positions.                                                              *)
(***************************************************************************)
RECURSIVE PairedPositions(_, _, _)
PairedPositions(out, k, taken) ==
    IF k > Len(out) THEN taken
    ELSE IF out[k].MatchMethod # "Unallocated" THEN PairedPositions(out, k + 1, taken)
    ELSE LET fits == { i \in 1..Len(out) :
                          /\ out[i].MatchMethod = "Open"
                          /\ i \notin taken
                          /\ Abs(out[i].ResidualFacturaTras - Abs(out[k].Asignado)) <= Tol }
         IN IF fits = {} THEN PairedPositions(out, k + 1, taken)
            ELSE PairedPositions(out, k + 1,
                     taken \cup {k, CHOOSE i \in fits : \A j \in fits : i <= j})

(***************************************************************************)
(* C5  Post-processing: after flush, an Unallocated record and the first   *)
(* still-Open record whose residual is within the tolerance of the         *)
(* unallocated amount are both reclassified to PostProcessed with          *)
(* confidence 60.                                                          *)
(***************************************************************************)
C5_PostProcessing ==
    pc \in {"pre", "done"} =>
        \A i \in PairedPositions(out_rows, 1, {}) :
            /\ all_rows[i].MatchMethod = "PostProcessed"
            /\ all_rows[i].Confidence = 600

(***************************************************************************)
(* C6  Every payment has an outcome: processing a payment appends at least *)
(* one record carrying the payment's key.                                  *)
(***************************************************************************)
C6_PaymentOutcome ==
    [][PaymentDue =>
          \E k \in 1..Len(NewRows) :
              NewRows[k].PagoKey = Head(all_movements).doc_key]_vars

(***************************************************************************)
(* C7 (as claimed)  Set-id rule: a payment increments the set id by one    *)
(* exactly when it turns a non-empty open queue into an empty one.         *)
(***************************************************************************)
C7_Original ==
    [][PaymentDue =>
          /\ (open_invoices # <<>> /\ open_invoices' = <<>>) => set_id' = set_id + 1
          /\ ~(open_invoices # <<>> /\ open_invoices' = <<>>) => set_id' = set_id]_vars

(***************************************************************************)
(* C7 (amended)  Set-id rule: the set id starts at 0; a payment increments *)
(* it by one exactly when the open queue is empty once the payment has     *)
(* been processed (whether or not it was empty before); adding an invoice  *)
(* and flushing leave it unchanged.                                        *)
(***************************************************************************)
C7_SetIdRule ==
    [][/\ pc = "partition" => set_id = 0 /\ set_id' = 0
       /\ PaymentDue => /\ open_invoices' = <<>> => set_id' = set_id + 1
                        /\ open_invoices' # <<>> => set_id' = set_id
       /\ InvoiceDue => set_id' = set_id
       /\ (pc = "stream" /\ all_movements = <<>>) => set_id' = set_id]_vars

\* a run in which a payment found the queue empty and left it empty (set
\* id 1 with one Unallocated record), and a later payment emptied the
\* queue of one invoice (set id 2)
C7_Witness ==
    /\ pc = "post"
    /\ set_id = 2
    /\ Len(df) = 3
    /\ out_rows[1].MatchMethod = "Unallocated"
    /\ out_rows[1].SetID = 0
    /\ \E k \in 2..Len(out_rows) :
          out_rows[k].MatchMethod \in PhaseMethods /\ out_rows[k].SetID = 1

(***************************************************************************)
(* C8  Pre-reconciled bypass: a movement flagged pre-reconciled is never   *)
(* in the stream of movements nor in the open-invoice queue; the run ends  *)
(* with exactly one PreReconciled record per such movement, confidence 100,*)
(* carrying its full signed amount (residual 0 for an invoice); and the    *)
(* other records are those of the frame without the pre-reconciled         *)
(* movements.                                                              *)
(***************************************************************************)
C8_PreReconciledBypass ==
    LET pre == PreReconciledOf(SortedFrame(df))
        rest == SelectSeq(df, LAMBDA row : ~row.pre_reconciled)
        others == SelectSeq(all_rows, LAMBDA r : r.MatchMethod # "PreReconciled")
        added == SelectSeq(all_rows, LAMBDA r : r.MatchMethod = "PreReconciled")
    IN /\ \A k \in 1..Len(all_movements) : ~all_movements[k].pre_reconciled
       /\ \A k \in 1..Len(open_invoices) : ~open_invoices[k].original_row.pre_reconciled
       /\ pc = "stream" =>
             Len(all_movements) + Len(open_invoices) <= Len(rest)
       /\ pc = "done" =>
             /\ Len(added) = Len(pre)
             /\ \A k \in 1..Len(added) :
                   /\ added[k].Confidence = 1000
                   /\ added[k].Asignado = pre[k].neto_norm
                   /\ pre[k].neto_norm > 0 =>
                         /\ added[k].DocKey = pre[k].doc_key
                         /\ added[k].ResidualFacturaTras = 0
                   /\ pre[k].neto_norm < 0 => added[k].PagoKey = pre[k].doc_key
             /\ others = MatchableRecords(rest)

\* a finished run with a pre-reconciled invoice of 7.00 next to a matchable
\* invoice and its payment: one PreReconciled record and one allocation
C8_Witness ==
    /\ pc = "done"
    /\ \E i \in 1..Len(df) : df[i].pre_reconciled /\ df[i].neto_norm = 7000
    /\ \E k \in 1..Len(all_rows) :
          /\ all_rows[k].MatchMethod = "PreReconciled"
          /\ all_rows[k].Asignado = 7000
    /\ \E k \in 1..Len(all_rows) :
          /\ all_rows[k].MatchMethod \in PhaseMethods
          /\ all_rows[k].Asignado = 3000

\* the (date, row index) order of the stream
Precedes(a, b) == a.fecha < b.fecha \/ (a.fecha = b.fecha /\ a.idx <= b.idx)

(***************************************************************************)
(* C9  Chronological streaming: the movements still to be processed are in *)
(* non-decreasing (date, row index) order and every invoice in the open    *)
(* queue precedes them; an invoice at the head of the stream is appended   *)
(* to the queue; every phase allocation record has an invoice date not     *)
(* later than its payment date.                                            *)
(***************************************************************************)
C9_ChronologicalStreaming ==
    /\ \A i, j \in 1..Len(all_movements) :
          i < j => Precedes(all_movements[i], all_movements[j])
    /\ \A k \in 1..Len(open_invoices) : \A j \in 1..Len(all_movements) :
          Precedes(open_invoices[k].original_row, all_movements[j])
    /\ \A k \in 1..Len(out_rows) :
          out_rows[k].MatchMethod \in PhaseMethods
              => out_rows[k].Fecha_doc <= out_rows[k].Fecha_pago
    /\ \A k \in 1..Len(all_rows) :
          all_rows[k].MatchMethod \in PhaseMethods
              => all_rows[k].Fecha_doc <= all_rows[k].Fecha_pago

\* a finished run on a frame listed out of date order (its payment of day 5
\* first, an invoice of day 0 after it) with an allocation to that invoice
C9_Witness ==
    /\ pc = "done"
    /\ Len(df) >= 2
    /\ df[1].neto_norm < 0 /\ df[1].fecha = 5
    /\ df[2].neto_norm > 0 /\ df[2].fecha = 0
    /\ \E k \in 1..Len(all_rows) :
          /\ all_rows[k].MatchMethod \in PhaseMethods
          /\ all_rows[k].Fecha_doc = 0
          /\ all_rows[k].Fecha_pago = 5

(***************************************************************************)
(* C11  Counterparty independence                                          *)
(***************************************************************************)
\* the counterparties held by a sequence of frame rows
TercerosOf(rows) == {rows[i].tercero : i \in 1..Len(rows)}

\* the counterparties the Reconciler and the movements being streamed hold
TercerosInHand ==
    TercerosOf(all_movements) \cup TercerosOf(pre_reconciled_rows)
    \cup {open_invoices[k].original_row.tercero : k \in 1..Len(open_invoices)}
    \cup {out_rows[k].Tercero : k \in 1..Len(out_rows)}

\* the counterparties whose groups are still to be processed
TercerosAhead == UNION {TercerosOf(groups[g]) : g \in 1..Len(groups)}

\* the records returned for counterparty t from its matchable movements
RecordsOf(t) ==
    SelectSeq(all_rows, LAMBDA r : r.Tercero = t /\ r.MatchMethod # "PreReconciled")

(***************************************************************************)
(* C11: the open queue, the output list and the movements being streamed   *)
(* belong to one counterparty, none of whose movements is in a group still *)
(* to come; and when reconcile_fifo has finished, the records of each      *)
(* counterparty are the records reconcile_fifo gives for that              *)
(* counterparty's movements alone, whatever the other movements are.       *)
(***************************************************************************)
C11_CounterpartyIndependence ==
    /\ Cardinality(TercerosInHand) <= 1
    /\ TercerosInHand \cap TercerosAhead = {}
    /\ pc = "done" =>
          \A t \in TercerosOf(df) : RecordsOf(t) = MatchableRecords(RowsOf(df, t))

\* a finished run on a frame that lists counterparty 2 before counterparty 1,
\* where counterparty 1 is left with an open invoice of 3.00 and
\* counterparty 2 with an unallocated payment of 3.00
C11_Witness ==
    /\ pc = "done"
    /\ df[1].tercero = 2
    /\ \E i, j \in 1..Len(all_rows) :
          /\ all_rows[i].Tercero = 1 /\ all_rows[i].MatchMethod = "Open"
          /\ all_rows[i].ResidualFacturaTras = 3000
          /\ all_rows[j].Tercero = 2 /\ all_rows[j].MatchMethod = "Unallocated"
          /\ all_rows[j].Asignado = -3000

(***************************************************************************)
(* C12  Fatal input validation                                             *)
(***************************************************************************)
\* the sheets of the workbook the run processes
ProcessedSheets ==
    { xls[k] : k \in { k \in 1..Len(xls) :
        \E j \in 1..Len(SheetsToProcess(xls, sheet_filter)) :
            SheetsToProcess(xls, sheet_filter)[j] = xls[k].name } }

\* every sheet the run is asked for is a sheet this system wrote
AllSystemOutput ==
    \A k \in 1..Len(IF sheet_filter # None THEN <<sheet_filter>> ELSE SheetNames(xls)) :
        (IF sheet_filter # None THEN <<sheet_filter>> ELSE SheetNames(xls))[k]
            \in system_generated_sheets

(***************************************************************************)
(* C12: a run that processes sheets all of which lack the account or the   *)
(* net-amount column, or whose sheets are all system output, does not      *)
(* return a result; a run with a usable sheet raises no error, and when it *)
(* returns every unusable sheet it processed has its error note.           *)
(***************************************************************************)
C12_FatalInputValidation ==
    /\ pc = "returned" /\ ProcessedSheets # {}
          => \E sheet \in ProcessedSheets : ~Unusable(sheet)
    /\ pc = "returned" => ~AllSystemOutput
    /\ pc = "ValueError" => ~\E sheet \in ProcessedSheets : ~Unusable(sheet)
    /\ pc = "returned" =>
          \A sheet \in ProcessedSheets :
              Unusable(sheet) =>
                  \E k \in 1..Len(meta_rows) : meta_rows[k] = ErrorMeta(sheet.name)

(***************************************************************************)
(* C13  Open-Item Projector                                                *)
(***************************************************************************)
\* the day build_pendientes runs on
Today == 10

\* the records of the detail that carry the invoice key
RecordsWithKey(det, key) == { i \in 1..Len(det) : det[i].DocKey = key }

\* record i comes after record j in the order (set id, payment date with
\* missing dates last), records that tie keeping the order of the detail
LaterRecord(det, i, j) ==
    \/ PendientesOrderKey(det[i]) > PendientesOrderKey(det[j])
    \/ PendientesOrderKey(det[i]) = PendientesOrderKey(det[j]) /\ i > j

\* the latest record of an invoice key
LatestRecord(det, key) ==
    CHOOSE i \in RecordsWithKey(det, key) :
        \A j \in RecordsWithKey(det, key) \ {i} : LaterRecord(det, i, j)

\* the invoices of the frame have distinct keys
DistinctInvoiceKeys ==
    \A i, j \in 1..Len(df) :
        (i # j /\ df[i].neto_norm > 0 /\ df[j].neto_norm > 0)
            => df[i].doc_key # df[j].doc_key

\* the keys of the invoices with a record reclassified by post-processing
ReclassifiedKeys ==
    { all_rows[i].DocKey :
        i \in { i \in 1..Len(all_rows) : all_rows[i].MatchMethod = "PostProcessed" } }

\* (key, amount) of the open items
PendingItems(pend) == { <<pend[k].DocKey, pend[k].ImportePendiente>> : k \in 1..Len(pend) }

(***************************************************************************)
(* C13: on the detail reconcile_fifo returns, build_pendientes gives one   *)
(* row for every invoice key whose latest record (by set id, then payment  *)
(* date, missing dates last) has a residual above the tolerance, with that *)
(* residual as pending amount, and no other row; and when the invoices     *)
(* have distinct keys, the rows are the invoices left in the open queue at *)
(* the end of the stream that post-processing did not reclassify, each     *)
(* with its remaining balance.                                             *)
(***************************************************************************)
C13_OpenItemProjector ==
    pc = "done" =>
        LET pend == build_pendientes(all_rows, Today)
            keys == { all_rows[i].DocKey : i \in 1..Len(all_rows) } \ {NoKey}
        IN /\ \A k \in 1..Len(pend) : pend[k].DocKey \in keys
           /\ \A key \in keys :
                 LET last == all_rows[LatestRecord(all_rows, key)]
                     rows == { k \in 1..Len(pend) : pend[k].DocKey = key }
                 IN IF last.ResidualFacturaTras > Tol
                    THEN /\ Cardinality(rows) = 1
                         /\ \A k \in rows :
                               pend[k].ImportePendiente = last.ResidualFacturaTras
                    ELSE rows = {}
           /\ DistinctInvoiceKeys =>
                 PendingItems(pend) =
                     { <<open_invoices[k].doc_key, open_invoices[k].remaining>> :
                         k \in { k \in 1..Len(open_invoices) :
                                   open_invoices[k].doc_key \notin ReclassifiedKeys } }

(***************************************************************************)
(* C14  Phase gating                                                       *)
(***************************************************************************)
\* the place of a method tag in the order of the phases
PhaseRank(method) ==
    CASE method = "Reference" -> 1
      [] method = "Exact" -> 2
      [] method = "CombinedAmount" -> 3
      [] method = "DateProximity" -> 4
      [] method = "FIFO" -> 5

\* the allocation records among the records a step appends
NewAllocations == SelectSeq(NewRows, LAMBDA r : r.MatchMethod \in PhaseMethods)

\* what is left of the payment before its k-th allocation record
LeftBefore(k) ==
    -Head(all_movements).neto_norm - SumAsignado(SubSeq(NewAllocations, 1, k - 1))

LeftAfter == LeftBefore(Len(NewAllocations) + 1)

(***************************************************************************)
(* C15: processing a payment appends one Unallocated record when more than *)
(* the tolerance is left of it after its allocation records, and none      *)
(* otherwise; the record is the last one appended, allocates minus what is *)
(* left, has confidence 0, no invoice key, the payment's key, and the      *)
(* Suggestion Engine's top suggestion for what is left against the queue   *)
(* the payment leaves behind.                                              *)
(***************************************************************************)
C15_UnallocatedEmission ==
    [][PaymentDue =>
          LET unallocated == { k \in 1..Len(NewRows) :
                                  NewRows[k].MatchMethod = "Unallocated" }
              suggestion == generate_unmatched_suggestions(
                                LeftAfter, Head(all_movements).concepto, open_invoices')
          IN /\ Cardinality(unallocated) = IF LeftAfter > Tol THEN 1 ELSE 0
             /\ \A k \in unallocated :
                   /\ k = Len(NewRows)
                   /\ NewRows[k].Asignado = -LeftAfter
                   /\ NewRows[k].Confidence = 0
                   /\ NewRows[k].DocKey = NoKey
                   /\ NewRows[k].PagoKey = Head(all_movements).doc_key
                   /\ NewRows[k].Suggestion = suggestion.type
                   /\ NewRows[k].SuggestionConfidence = suggestion.confidence]_vars

\* a payment of 10.00 of which 3.00 went to an invoice by reference: its
\* Unallocated record of 7.00 follows the Reference record
C15_Witness ==
    \E k \in 1..(Len(out_rows) - 1) :
        /\ out_rows[k].MatchMethod = "Reference" /\ out_rows[k].Asignado = 3000
        /\ out_rows[k + 1].MatchMethod = "Unallocated"
        /\ out_rows[k + 1].Asignado = -7000
        /\ out_rows[k + 1].PagoKey = out_rows[k].PagoKey

(***************************************************************************)
(* C16  Combined-amount rule                                               *)
(***************************************************************************)
\* the amount of the payment at the head of the stream
PaymentAmount == -Head(all_movements).neto_norm

\* no phase before the combined-amount phase allocated anything of the
\* payment being processed: the phase starts with the whole payment left
\* and the queue as it stands
CombinedPhaseFirst ==
    /\ PaymentDue
    /\ PaymentAmount > Tol
    /\ \A k \in 1..Len(NewAllocations) :
          NewAllocations[k].MatchMethod \notin {"Reference", "Exact"}

\* the summed remaining of the invoices at the queue positions S is the
\* payment within max(tolerance, 1% of the payment)
Qualifies(S) ==
    LET total == SumSeq([k \in 1..Len(S) |-> open_invoices[S[k]].remaining])
    IN 100 * Abs(total - PaymentAmount) <= Max(100 * Tol, PaymentAmount)

\* the qualifying pairs and triples of queue positions, in ascending order
QualifyingPairs ==
    { S \in (1..Len(open_invoices)) \X (1..Len(open_invoices)) :
        S[1] < S[2] /\ Qualifies(S) }

QualifyingTriples ==
    { S \in (1..Len(open_invoices)) \X (1..Len(open_invoices)) \X (1..Len(open_invoices)) :
        S[1] < S[2] /\ S[2] < S[3] /\ Qualifies(S) }

\* S comes before T in queue index order
IndexOrder(S, T) ==
    \E k \in 1..Len(S) : S[k] < T[k] /\ \A j \in 1..(k - 1) : S[j] = T[j]

\* the first combination of a set in queue index order
FirstCombination(set) == CHOOSE S \in set : \A T \in set \ {S} : IndexOrder(S, T)

\* the first records of the payment are the members of the combination S,
\* in order, each with its whole remaining allocated and the confidence
\* given, and no member stays in the queue
AllocatedInFull(S, confidence) ==
    /\ Len(NewAllocations) >= Len(S)
    /\ \A k \in 1..Len(S) :
          /\ NewAllocations[k].MatchMethod = "CombinedAmount"
          /\ NewAllocations[k].DocKey = open_invoices[S[k]].doc_key
          /\ NewAllocations[k].Asignado = open_invoices[S[k]].remaining
          /\ NewAllocations[k].ResidualFacturaTras = 0
          /\ NewAllocations[k].Confidence = confidence
    /\ Len(open_invoices') <= Len(open_invoices) - Len(S)
    /\ \A k \in 1..Len(S) :
          UniqueInQueue(S[k]) =>
              \A j \in 1..Len(open_invoices') :
                  open_invoices'[j].doc_key # open_invoices[S[k]].doc_key

(***************************************************************************)
(* C16: when the combined-amount phase starts with the whole payment, the  *)
(* first pair of open invoices in queue index order whose summed remaining *)
(* is the payment within max(tolerance, 1% of the payment) has each        *)
(* member's whole remaining allocated by CombinedAmount records of         *)
(* confidence 85, and both leave the queue; when no pair qualifies, the    *)
(* first qualifying triple is allocated in the same way with confidence    *)
(* 80; when neither qualifies there is no CombinedAmount record.           *)
(***************************************************************************)
C16_CombinedAmountRule ==
    [][CombinedPhaseFirst =>
          IF QualifyingPairs # {}
          THEN AllocatedInFull(FirstCombination(QualifyingPairs), 850)
          ELSE IF QualifyingTriples # {}
          THEN AllocatedInFull(FirstCombination(QualifyingTriples), 800)
          ELSE \A k \in 1..Len(NewAllocations) :
                  NewAllocations[k].MatchMethod # "CombinedAmount"]_vars

\* invoices of 300.00 and 700.00 and a payment of 1000.00 recorded as two
\* CombinedAmount records of confidence 85, the queue left empty
C16_Witness ==
    /\ Len(df) = 3 /\ pc = "stream" /\ all_movements = <<>> /\ open_invoices = <<>>
    /\ Len(out_rows) = 2
    /\ {out_rows[1].Asignado, out_rows[2].Asignado} = {300000, 700000}
    /\ \A k \in 1..2 : /\ out_rows[k].MatchMethod = "CombinedAmount"
                       /\ out_rows[k].Confidence = 850
                       /\ out_rows[k].PagoKey = doc_key(1, <<>>, 0, -1000000)

\* invoices of 300.00, 700.00 and 500.00 and a payment of 1500.00 recorded
\* as three CombinedAmount records of confidence 80, the queue left empty
C16_TripleWitness ==
    /\ Len(df) = 4 /\ pc = "stream" /\ all_movements = <<>> /\ open_invoices = <<>>
    /\ Len(out_rows) = 3
    /\ {out_rows[1].Asignado, out_rows[2].Asignado, out_rows[3].Asignado}
          = {300000, 700000, 500000}
    /\ \A k \in 1..3 : /\ out_rows[k].MatchMethod = "CombinedAmount"
                       /\ out_rows[k].Confidence = 800
                       /\ out_rows[k].PagoKey = doc_key(1, <<>>, 0, -1500000)

(***************************************************************************)
(* C17  Single combination per payment                                     *)
(***************************************************************************)
\* the CombinedAmount records among the records a step appends
NewCombined == SelectSeq(NewAllocations, LAMBDA r : r.MatchMethod = "CombinedAmount")

(***************************************************************************)
(* C17: a payment is recorded with at most one combination: no             *)
(* CombinedAmount record, or the two records of one pair (confidence 85),  *)
(* or the three records of one triple (confidence 80); and when the        *)
(* combined-amount phase starts with the whole payment and a pair          *)
(* qualifies, the records are those of that pair alone.                    *)
(***************************************************************************)
C17_SingleCombination ==
    [][PaymentDue =>
          /\ \/ NewCombined = <<>>
             \/ /\ Len(NewCombined) = 2
                /\ \A k \in 1..2 : NewCombined[k].Confidence = 850
             \/ /\ Len(NewCombined) = 3
                /\ \A k \in 1..3 : NewCombined[k].Confidence = 800
          /\ (CombinedPhaseFirst /\ QualifyingPairs # {}) => Len(NewCombined) = 2]_vars

(***************************************************************************)
(* C18  Exact-amount selection                                             *)
(***************************************************************************)
\* the Reference phase allocated nothing of the payment being processed:
\* the Exact phase starts with the whole payment and the queue as it stands
ExactPhaseFirst ==
    /\ PaymentDue
    /\ PaymentAmount > Tol
    /\ \A k \in 1..Len(NewAllocations) : NewAllocations[k].MatchMethod # "Reference"

\* the queue positions whose remaining is the payment within the tolerance
ExactMatching ==
    { idx \in 1..Len(open_invoices) :
        /\ open_invoices[idx].remaining > Tol
        /\ Abs(open_invoices[idx].remaining - PaymentAmount) <= Tol }

\* the days between the invoice at a queue position and the payment
DateGap(idx) == Abs(open_invoices[idx].fecha - Head(all_movements).fecha)

\* the matching invoice closest in date, the earliest in the queue on a tie
ClosestInDate ==
    CHOOSE idx \in ExactMatching :
        \A other \in ExactMatching \ {idx} :
            \/ DateGap(idx) < DateGap(other)
            \/ DateGap(idx) = DateGap(other) /\ idx < other

(***************************************************************************)
(* C18: when the Exact phase starts with the whole payment and some open   *)
(* invoice matches it within the tolerance, the payment is recorded by one *)
(* Exact record and nothing else: it names the matching invoice closest in *)
(* date (the earliest in the queue on a tie), allocates the whole payment, *)
(* has confidence 90 when the gap is at most 30 days, 85 when at most 60,  *)
(* else 80, and that invoice alone leaves the queue; when none matches     *)
(* there is no Exact record.                                               *)
(***************************************************************************)
C18_ExactSelection ==
    [][ExactPhaseFirst =>
          IF ExactMatching # {}
          THEN /\ Len(NewRows) = 1
               /\ NewRows[1].MatchMethod = "Exact"
               /\ NewRows[1].DocKey = open_invoices[ClosestInDate].doc_key
               /\ NewRows[1].Fecha_doc = open_invoices[ClosestInDate].fecha
               /\ NewRows[1].Asignado = PaymentAmount
               /\ NewRows[1].Confidence =
                     IF DateGap(ClosestInDate) <= 30 THEN 900
                     ELSE IF DateGap(ClosestInDate) <= 60 THEN 850 ELSE 800
               /\ open_invoices' =
                     SubSeq(open_invoices, 1, ClosestInDate - 1)
                     \o SubSeq(open_invoices, ClosestInDate + 1, Len(open_invoices))
          ELSE \A k \in 1..Len(NewRows) : NewRows[k].MatchMethod # "Exact"]_vars

\* a payment of 10.00 of day 100 with the invoices of day 0 and day 40 in the
\* queue: the Exact record names the invoice of day 40 with confidence 85
\* and the invoice of day 0 stays in the queue
C18_Witness ==
    /\ Len(open_invoices) = 1 /\ open_invoices[1].fecha = 0
    /\ open_invoices[1].remaining = 10000
    /\ Len(out_rows) = 1
    /\ out_rows[1].MatchMethod = "Exact"
    /\ out_rows[1].Fecha_doc = 40 /\ out_rows[1].Fecha_pago = 100
    /\ out_rows[1].Asignado = 10000
    /\ out_rows[1].Confidence = 850

(***************************************************************************)
(* C19  Reference-phase greedy order                                       *)
(***************************************************************************)
\* the payment at the head of the stream carries a concept, so that the
\* Reference phase runs on the whole payment and the queue as it stands
ReferencePhaseRuns ==
    /\ PaymentDue
    /\ PaymentAmount > Tol
    /\ Head(all_movements).concepto # <<>>

\* the reference scores of the queue positions for that payment
HeadScores ==
    [idx \in 1..Len(open_invoices) |-> ScoreFor(idx, Head(all_movements))]

\* the queue positions the phase considers, given the scores
Considered(scores) ==
    { idx \in 1..Len(open_invoices) :
        /\ open_invoices[idx].remaining > Tol
        /\ ScoreGeq(scores[idx], <<7, 10>>) }

\* the place of a considered position in descending score order, equal
\* scores in queue order
ScoreRank(scores, idx) ==
    1 + Cardinality({ j \in Considered(scores) :
                        \/ ScoreGt(scores[j], scores[idx])
                        \/ scores[j] = scores[idx] /\ j < idx })

\* the considered positions in that order
ByScore(scores) ==
    [r \in 1..Cardinality(Considered(scores)) |->
        CHOOSE idx \in Considered(scores) : ScoreRank(scores, idx) = r]

\* the greedy allocation over the positions in the given order, from place
\* r on with the given amount left: each invoice takes min(remaining, left)
\* until no more than the tolerance is left
RECURSIVE GreedyFrom(_, _, _)
GreedyFrom(order, r, left) ==
    IF r > Len(order) \/ left <= Tol THEN <<>>
    ELSE LET take == Min(open_invoices[order[r]].remaining, left)
         IN <<[idx |-> order[r], take |-> take]>> \o GreedyFrom(order, r + 1, left - take)

\* the confidence of a score n/d, in tenths of a percent:
\* min(95 + 5 score, 100) from 0.9 on, else 80 + 15 score
ScoreConfidence(score) ==
    IF 10 * score[1] >= 9 * score[2]
    THEN Min(RoundHalfEven(10 * (95 * score[2] + 5 * score[1]), score[2]), 1000)
    ELSE RoundHalfEven(10 * (80 * score[2] + 15 * score[1]), score[2])

\* the Reference records among the records a step appends
NewReference == SelectSeq(NewAllocations, LAMBDA r : r.MatchMethod = "Reference")

(***************************************************************************)
(* C19: the Reference records of a payment with a concept are those of     *)
(* the greedy allocation over the open invoices whose score reaches 0.7,   *)
(* taken in descending score order (equal scores in queue order): each     *)
(* takes min(remaining, left) until no more than the tolerance is left,    *)
(* with confidence min(95 + 5 score, 100) for a score from 0.9 on and      *)
(* 80 + 15 score below.                                                    *)
(***************************************************************************)
C19_ReferenceGreedyOrder ==
    [][ReferencePhaseRuns =>
          LET scores == HeadScores
              greedy == GreedyFrom(ByScore(scores), 1, PaymentAmount)
          IN /\ Len(NewReference) = Len(greedy)
             /\ \A k \in 1..Len(greedy) :
                   /\ NewReference[k].DocKey = open_invoices[greedy[k].idx].doc_key
                   /\ NewReference[k].Asignado = greedy[k].take
                   /\ NewReference[k].Confidence =
                         ScoreConfidence(scores[greedy[k].idx])]_vars

\* the invoice "1200" (score 6/7) queued ahead of the invoice "FAC 100"
\* (score 1) and a payment of 4.00: 3.00 go to "FAC 100" with confidence
\* 100, then 1.00 to "1200" with confidence 92.9
C19_Witness ==
    /\ Len(out_rows) = 2
    /\ Len(open_invoices) = 1 /\ open_invoices[1].remaining = 2000
    /\ open_invoices[1].doc_key = doc_key(1, <<"1", "2", "0", "0">>, 0, 3000)
    /\ out_rows[1].MatchMethod = "Reference" /\ out_rows[1].Asignado = 3000
    /\ out_rows[1].DocKey = doc_key(1, FAC_100, 0, 3000)
    /\ out_rows[1].Confidence = 1000
    /\ out_rows[2].MatchMethod = "Reference" /\ out_rows[2].Asignado = 1000
    /\ out_rows[2].DocKey = doc_key(1, <<"1", "2", "0", "0">>, 0, 3000)
    /\ out_rows[2].Confidence = 929

(***************************************************************************)
(* C20  FIFO fallback order                                                *)
(***************************************************************************)
\* the open queue is in ascending (date, row index) order
QueueOrdered(queue) ==
    \A i, j \in 1..Len(queue) :
        i < j => RowOrderKey(queue[i].original_row) < RowOrderKey(queue[j].original_row)

\* the allocation records a step appends before its first FIFO record
BeforeFifo ==
    SelectSeq(NewAllocations, LAMBDA r : r.MatchMethod # "FIFO")

\* the FIFO records a step appends
NewFifo == SelectSeq(NewAllocations, LAMBDA r : r.MatchMethod = "FIFO")

\* the remaining of every queue position when the FIFO phase starts
RemainingAtFifo ==
    [idx \in 1..Len(open_invoices) |->
        open_invoices[idx].remaining
            - SumAsignado(RowsWithDocKey(BeforeFifo, open_invoices[idx].doc_key))]

\* the walk of the queue from position idx on, oldest first: each invoice
\* with more than the tolerance remaining takes min(remaining, left) until
\* no more than the tolerance is left
RECURSIVE FifoWalk(_, _, _)
FifoWalk(rem, idx, left) ==
    IF idx > Len(rem) \/ left <= Tol THEN <<>>
    ELSE IF rem[idx] <= Tol THEN FifoWalk(rem, idx + 1, left)
    ELSE <<[idx |-> idx, take |-> Min(rem[idx], left)]>>
         \o FifoWalk(rem, idx + 1, left - Min(rem[idx], left))

(***************************************************************************)
(* C20: the open queue is in (date, row index) order before and after      *)
(* every step; and the FIFO records of a payment (the invoices in the      *)
(* queue having keys of their own) are those of the walk of the queue,     *)
(* oldest first, over what the earlier phases left: each invoice with more *)
(* than the tolerance remaining takes min(remaining, left) until no more   *)
(* than the tolerance is left, and every invoice queued before one that    *)
(* FIFO touched has left the queue.                                        *)
(***************************************************************************)
C20_FifoOrder ==
    [][/\ QueueOrdered(open_invoices)
       /\ QueueOrdered(open_invoices')
       /\ (PaymentDue /\ \A idx \in 1..Len(open_invoices) : UniqueInQueue(idx)) =>
             LET walk == FifoWalk(RemainingAtFifo, 1,
                                  PaymentAmount - SumAsignado(BeforeFifo))
             IN /\ Len(NewFifo) = Len(walk)
                /\ \A k \in 1..Len(walk) :
                      /\ NewFifo[k].DocKey = open_invoices[walk[k].idx].doc_key
                      /\ NewFifo[k].Asignado = walk[k].take
                      /\ \A j \in 1..(walk[k].idx - 1) :
                            \A q \in 1..Len(open_invoices') :
                                open_invoices'[q].doc_key # open_invoices[j].doc_key]_vars

\* invoices of 7.00 of day 0 and day 5 and a payment of 9.95: FIFO takes
\* 7.00 from the older invoice, then 2.95 from the newer one, which stays
\* in the queue with 4.05
C20_Witness ==
    /\ Len(out_rows) = 2
    /\ out_rows[1].MatchMethod = "FIFO" /\ out_rows[1].Asignado = 7000
    /\ out_rows[1].Fecha_doc = 0 /\ out_rows[1].ResidualFacturaTras = 0
    /\ out_rows[2].MatchMethod = "FIFO" /\ out_rows[2].Asignado = 2950
    /\ out_rows[2].Fecha_doc = 5 /\ out_rows[2].ResidualFacturaTras = 4050
    /\ Len(open_invoices) = 1 /\ open_invoices[1].remaining = 4050

(***************************************************************************)
(* C21  Open-set invariant: while the movements of a counterparty are      *)
(* streamed, that is after every add_invoice and every process_payment,    *)
(* each queued invoice has more than the tolerance remaining, and every    *)
(* Open record written by flush_remaining has a residual above the         *)
(* tolerance.                                                              *)
(***************************************************************************)
C21_OpenSetInvariant ==
    /\ pc = "stream" =>
          \A k \in 1..Len(open_invoices) : open_invoices[k].remaining > Tol
    /\ \A k \in 1..Len(out_rows) :
          out_rows[k].MatchMethod = "Open" => out_rows[k].ResidualFacturaTras > Tol

(***************************************************************************)
(* C22  Confidence range: every record, in the Reconciler's out_rows and   *)
(* in the rows returned, carries a confidence between 0 and 100 fixed by   *)
(* its method: Reference at least 90.5, Exact 80, 85 or 90, CombinedAmount *)
(* 80 or 85, DateProximity from 52.5 to 70, FIFO from 45 to 75,            *)
(* PostProcessed 60, PreReconciled 100, Open and Unallocated 0.            *)
(* Confidences are counted in tenths of a percent, the unit round(x, 1)    *)
(* leaves.                                                                 *)
(***************************************************************************)
ConfidenceInRange(r) ==
    /\ r.Confidence >= 0 /\ r.Confidence <= 1000
    /\ r.MatchMethod \in PhaseMethods \cup {"PostProcessed", "PreReconciled",
                                            "Open", "Unallocated"}
    /\ r.MatchMethod = "Reference" => r.Confidence >= 905
    /\ r.MatchMethod = "Exact" => r.Confidence \in {800, 850, 900}
    /\ r.MatchMethod = "CombinedAmount" => r.Confidence \in {800, 850}
    /\ r.MatchMethod = "DateProximity" => r.Confidence >= 525 /\ r.Confidence <= 700
    /\ r.MatchMethod = "FIFO" => r.Confidence >= 450 /\ r.Confidence <= 750
    /\ r.MatchMethod = "PostProcessed" => r.Confidence = 600
    /\ r.MatchMethod = "PreReconciled" => r.Confidence = 1000
    /\ r.MatchMethod \in {"Open", "Unallocated"} => r.Confidence = 0

C22_ConfidenceRange ==
    /\ \A k \in 1..Len(out_rows) : ConfidenceInRange(out_rows[k])
    /\ \A k \in 1..Len(all_rows) : ConfidenceInRange(all_rows[k])

\* an invoice of 7.00 of day 0 and a payment of 7.50 of day 45: a
\* DateProximity record at the lower end, 52.5, and an Unallocated record
\* of 0.50 at 0
C22_Witness ==
    /\ pc = "done"
    /\ Len(all_rows) = 2
    /\ all_rows[1].MatchMethod = "DateProximity" /\ all_rows[1].Confidence = 525
    /\ all_rows[2].MatchMethod = "Unallocated" /\ all_rows[2].Confidence = 0

\* an invoice of 7.00 and a payment of 10.00 of the same day: the FIFO
\* record reaches the cap, 75
C22_CapWitness ==
    /\ pc = "done"
    /\ \E k \in 1..Len(all_rows) :
          all_rows[k].MatchMethod = "FIFO" /\ all_rows[k].Confidence = 750

(***************************************************************************)
(* C23  Column-role detection.  As stated: each role goes to the first     *)
(* column, in sheet order, whose header matches any pattern of the role's  *)
(* list.  As the code resolves it: each role goes to the first column, in  *)
(* sheet order, whose header matches the earliest pattern of the role's    *)
(* list that matches a column at all; a role none of whose patterns        *)
(* matches a column is left unresolved.                                    *)
(***************************************************************************)
\* the column at position k matches the pattern
ColumnMatches(k, pattern) == re_search(pattern, columns[k])

\* the first column, in sheet order, that satisfies the test, or NoCol
FirstColumn(Test(_)) ==
    IF \E k \in 1..Len(columns) : Test(k)
    THEN columns[CHOOSE k \in 1..Len(columns) :
                    Test(k) /\ \A j \in 1..(k - 1) : ~Test(j)]
    ELSE NoCol

\* the first column matching any pattern of the list
FirstMatchingAny(patterns) ==
    FirstColumn(LAMBDA k : \E p \in 1..Len(patterns) : ColumnMatches(k, patterns[p]))

\* the first column matching the earliest pattern that matches a column
FirstMatchingEarliest(patterns) ==
    FirstColumn(LAMBDA k :
        \E p \in 1..Len(patterns) :
            /\ ColumnMatches(k, patterns[p])
            /\ \A q \in 1..(p - 1) : \A j \in 1..Len(columns) :
                  ~ColumnMatches(j, patterns[q]))

C23_Original ==
    pc = "detected" =>
        /\ schema.fecha = FirstMatchingAny(date_patterns)
        /\ schema.cuenta = FirstMatchingAny(cuenta_patterns)
        /\ schema.debe = FirstMatchingAny(debe_patterns)
        /\ schema.haber = FirstMatchingAny(haber_patterns)
        /\ schema.saldo = FirstMatchingAny(saldo_patterns)

C23_ColumnRoleDetection ==
    pc = "detected" =>
        /\ schema.fecha = FirstMatchingEarliest(date_patterns)
        /\ schema.cuenta = FirstMatchingEarliest(cuenta_patterns)
        /\ schema.debe = FirstMatchingEarliest(debe_patterns)
        /\ schema.haber = FirstMatchingEarliest(haber_patterns)
        /\ schema.saldo = FirstMatchingEarliest(saldo_patterns)

\* the columns "debit", "debe": the debit role goes to the second column,
\* which matches the first pattern of the list, and the credit role, with
\* no matching column, stays unresolved
C23_Witness ==
    /\ pc = "detected"
    /\ columns = << <<"d", "e", "b", "i", "t">>, <<"d", "e", "b", "e">> >>
    /\ schema.debe = <<"d", "e", "b", "e">>
    /\ schema.haber = NoCol

(***************************************************************************)
(* C24  Range-expansion cap: for the range start-end of the text, the end  *)
(* completed with the start's leading digits when it is shorter, the       *)
(* references returned hold at most 10 numbers of the range, and none      *)
(* strictly between the two endpoints when the range is too large to       *)
(* expand.                                                                 *)
(***************************************************************************)
RangeStart == ParseInt(range_text[1])

RangeEnd == CompletedEnd(RangeStart, ParseInt(range_text[2]))

\* the numbers the references stand for
ReferenceValues == {ParseInt(references[k]) : k \in 1..Len(references)}

C24_RangeExpansionCap ==
    pc = "extracted" =>
        /\ Cardinality(ReferenceValues \cap (RangeStart..RangeEnd)) <= 10
        /\ RangeEnd - RangeStart > 10 =>
              ReferenceValues \cap ((RangeStart + 1)..(RangeEnd - 1)) = {}

(***************************************************************************)
(* C25  Unallocated implies empty queue: a process_payment that writes an  *)
(* Unallocated record has consumed every invoice that was open (the        *)
(* records of the payment cover each invoice's remaining up to the         *)
(* tolerance), leaves the queue empty, raises the set id right after the   *)
(* record, and its suggestion, drawn from the empty queue, is neither the  *)
(* future-invoice nor the digit-transposition diagnosis.                   *)
(***************************************************************************)
UnallocatedWritten ==
    \E k \in 1..Len(NewRows) : NewRows[k].MatchMethod = "Unallocated"

C25_UnallocatedEmptiesQueue ==
    [][(PaymentDue /\ UnallocatedWritten) =>
          /\ open_invoices' = <<>>
          /\ set_id' = set_id + 1
          /\ \A k \in 1..Len(NewRows) :
                NewRows[k].MatchMethod = "Unallocated" =>
                    /\ NewRows[k].SetID = set_id
                    /\ NewRows[k].Suggestion \notin {"future_invoices", "digit_error"}
          /\ \A i \in 1..Len(open_invoices) :
                UniqueInQueue(i) =>
                    SumAsignado(RowsWithDocKey(NewRows, open_invoices[i].doc_key))
                        >= open_invoices[i].remaining - Tol]_vars

\* an invoice of 7.00 and a payment of 9.95: FIFO takes the invoice whole,
\* 2.95 is recorded as Unallocated, the queue is empty and the set id is 1
C25_Witness ==
    /\ pc = "stream"
    /\ Len(out_rows) = 2
    /\ out_rows[1].MatchMethod = "FIFO" /\ out_rows[1].Asignado = 7000
    /\ out_rows[2].MatchMethod = "Unallocated" /\ out_rows[2].Asignado = -2950
    /\ out_rows[2].SetID = 0
    /\ open_invoices = <<>>
    /\ set_id = 1

(***************************************************************************)
(* C26  Post-processing frame: the post-processing pass changes only       *)
(* records that are Unallocated or Open when it runs; every record of a    *)
(* matching phase is returned with the method, confidence, allocated       *)
(* amount and residual it had before the pass.                             *)
(***************************************************************************)
\* the record returned for the k-th record of the Reconciler
Returned(k) == all_rows'[Len(all_rows) + k]

C26_PostProcessingFrame ==
    [][pc = "post" =>
          \A k \in 1..Len(out_rows) :
              /\ out_rows[k].MatchMethod \notin {"Unallocated", "Open"} =>
                    Returned(k) = out_rows[k]
              /\ out_rows[k].MatchMethod \in PhaseMethods =>
                    /\ Returned(k).MatchMethod = out_rows[k].MatchMethod
                    /\ Returned(k).Confidence = out_rows[k].Confidence
                    /\ Returned(k).Asignado = out_rows[k].Asignado
                    /\ Returned(k).ResidualFacturaTras = out_rows[k].ResidualFacturaTras]_vars

(***************************************************************************)
(* C27  Positive allocations only: every record of a matching phase        *)
(* (Reference, Exact, CombinedAmount, DateProximity, FIFO) allocates more  *)
(* than the tolerance.                                                     *)
(***************************************************************************)
C27_PositiveAllocations ==
    \A k \in 1..Len(out_rows) :
        out_rows[k].MatchMethod \in PhaseMethods => out_rows[k].Asignado > Tol

(***************************************************************************)
(* C28  Residual snapshot: for a payment and an invoice of the queue (with *)
(* a key of its own), the residual on each allocation record equals the    *)
(* invoice's remaining right after that allocation, that is its remaining  *)
(* before the payment less the amounts of the payment's records for it up  *)
(* to this one; and the payment has at most one allocation record for the  *)
(* invoice.                                                                *)
(***************************************************************************)
\* the allocation records of the payment being processed for the invoice
\* at position idx of the queue
AllocationsTo(idx) == RowsWithDocKey(NewAllocations, open_invoices[idx].doc_key)

\* the invoice's remaining right after the k-th of these allocations
RemainingAfter(idx, k) ==
    open_invoices[idx].remaining - SumAsignado(SubSeq(AllocationsTo(idx), 1, k))

ResidualIsSnapshot ==
    \A idx \in 1..Len(open_invoices) :
        UniqueInQueue(idx) =>
            \A k \in 1..Len(AllocationsTo(idx)) :
                AllocationsTo(idx)[k].ResidualFacturaTras = RemainingAfter(idx, k)

OneAllocationPerInvoice ==
    \A idx \in 1..Len(open_invoices) :
        UniqueInQueue(idx) => Len(AllocationsTo(idx)) <= 1

C28_ResidualSnapshot ==
    [][PaymentDue => ResidualIsSnapshot /\ OneAllocationPerInvoice]_vars

(***************************************************************************)
(* C29  Set-id consistency: among the records of a counterparty, in the    *)
(* Reconciler's out_rows and in the rows returned, the records of one      *)
(* payment (its allocations and its Unallocated record) carry one set id,  *)
(* and the records of one invoice (its allocations by any payment and its  *)
(* Open record) carry one set id.  Movements are told apart by their keys, *)
(* so the property is stated for the keys that belong to one movement of   *)
(* the frame.                                                              *)
(***************************************************************************)
\* the key belongs to exactly one matchable movement of the frame
OwnKey(key) ==
    Cardinality({i \in 1..Len(df) : df[i].doc_key = key}) = 1

SetIdConsistent(rows) ==
    \A j, k \in 1..Len(rows) :
        /\ (/\ rows[j].PagoKey # NoKey
            /\ rows[j].PagoKey = rows[k].PagoKey
            /\ OwnKey(rows[j].PagoKey)) => rows[j].SetID = rows[k].SetID
        /\ (/\ rows[j].DocKey # NoKey
            /\ rows[j].DocKey = rows[k].DocKey
            /\ OwnKey(rows[j].DocKey)) => rows[j].SetID = rows[k].SetID

C29_SetIdConsistency == SetIdConsistent(out_rows) /\ SetIdConsistent(all_rows)

\* a payment of 7.00 that finds the queue empty (set 0), then an invoice of
\* 10.00 and a payment of 3.00: the FIFO record and the Open record of the
\* invoice both carry set id 1
C29_Witness ==
    /\ Len(out_rows) = 3
    /\ out_rows[1].MatchMethod = "Unallocated" /\ out_rows[1].SetID = 0
    /\ out_rows[2].MatchMethod = "FIFO" /\ out_rows[2].SetID = 1
    /\ out_rows[3].MatchMethod = "Open" /\ out_rows[3].SetID = 1
    /\ out_rows[2].DocKey = out_rows[3].DocKey
    /\ OwnKey(out_rows[2].DocKey)

(***************************************************************************)
(* C30  No invoice vanishes: once reconcile_fifo has returned, every       *)
(* matchable movement with a positive amount has, among its counterparty's *)
(* records, at least one record under its key that is an allocation, an    *)
(* Open record or a PostProcessed record.                                  *)
(***************************************************************************)
\* the records returned that stand for the invoice in row i of the frame
InvoiceRecords(i) ==
    SelectSeq(all_rows, LAMBDA r :
        /\ r.Tercero = df[i].tercero
        /\ r.DocKey = df[i].doc_key
        /\ r.MatchMethod \in PhaseMethods \cup {"Open", "PostProcessed"})

C30_NoInvoiceVanishes ==
    pc = "done" =>
        \A i \in 1..Len(df) :
            (~df[i].pre_reconciled /\ df[i].neto_norm > 0) => InvoiceRecords(i) # <<>>

====
